---- MODULE Spec2Model ----
(***************************************************************************)
(* Model of the book library backend (backend/src/books/books.service.ts   *)
(* and the entities it persists).  The store is a PostgreSQL database      *)
(* reached through TypeORM: a Book table, a BorrowRecord table, row locks  *)
(* taken by SELECT ... FOR UPDATE inside entityManager.transaction, and    *)
(* plain repository reads and saves outside of it.  Every await of a       *)
(* handler is one step of the calling request, so requests interleave at   *)
(* exactly the points where the Node event loop can switch between them.   *)
(***************************************************************************)
EXTENDS Integers, Sequences, FiniteSets, TLC

\* ---- bounds of the model ----
NumProcs == 2      \* requests that can be in flight at once
NumUsers == 2      \* borrower identities
MaxBooks == 1      \* distinct isbn values offered to create, hence Book rows
MaxQty   == 2      \* largest quantity offered to create / update
MaxRecords == 2    \* BorrowRecord rows that can be inserted
MaxAvailable == 2  \* largest availableQuantity an update may leave in a row

Procs   == 1..NumProcs
Users   == 1..NumUsers
BookIds == 1..MaxBooks
Isbns   == 1..MaxBooks

\* ---- values ----
NULL      == 0     \* SQL NULL in a timestamp column (timestamps are >= 1)
Undefined == -1    \* a dto field that is absent from the request
NoBook    == [id |-> 0, isbn |-> 0, quantity |-> 0, availableQuantity |-> 0]

\* mutant: the validator is @Min(0)
CreateQuantitiesFromZero == 0..MaxQty

\* CreateBookDto.quantity: @IsInt @IsPositive
CreateQuantities == 1..MaxQty
\* UpdateBookDto.quantity: optional, same validators as CreateBookDto
UpdateQuantities == (1..MaxQty) \cup {Undefined}

VARIABLES
  books,             \* committed Book table: sequence of rows, row i has id i
  borrowRecords,     \* committed BorrowRecord table: sequence of rows
  lock,              \* lock[b]: the request holding the FOR UPDATE lock of Book b, 0 if free
  pc,                \* pc[p]: where request slot p stands in its handler
  op,                \* op[p]: the call slot p runs, or ran last, and its arguments
  book,              \* book[p]: the Book entity the handler holds in memory
  rec,               \* rec[p]: id of the BorrowRecord the handler found, 0 for null
  result,            \* result[p]: how the call op[p] ended, "pending" until it does
  clock,             \* database clock, source of now() and new Date()
  returnedAtDefault, \* what the schema stores for an omitted returnedAt: "NULL" or "NOW"
  lastBorrow,        \* history: per Book, the borrow that was the last committed write to it
  databaseEntity,    \* databaseEntity[p]: the row repository.save re-read to find the changed columns
  home,              \* state of the Home page of the frontend, and of the fetch it has in flight
  users,             \* committed User table: sequence of rows
  covers,            \* files in ./storage/covers: covers[k] is the id of the Book whose coverImage is file k, 0 if none
  coverImagePath,    \* coverImagePath[p]: the file the create of slot p has written, 0 for null
  http               \* the request HttpClientService has in flight, and its axios-retry state

vars == <<books, borrowRecords, lock, pc, op, book, rec, result, clock,
          returnedAtDefault, covers, coverImagePath, http, lastBorrow, databaseEntity, home, users>>

\* ---- helpers over the tables ----
BookExists(b) == b \in 1..Len(books)

IsOpen(r) == r.returnedAt = NULL

OpenRecords(b, u) ==
  {i \in 1..Len(borrowRecords) :
     /\ borrowRecords[i].book = b
     /\ borrowRecords[i].user = u
     /\ IsOpen(borrowRecords[i])}

OpenRecordsOfBook(b) ==
  {i \in 1..Len(borrowRecords) :
     borrowRecords[i].book = b /\ IsOpen(borrowRecords[i])}

Min(S) == CHOOSE x \in S : \A y \in S : x <= y

ClosedRecords(b, u) ==
  {i \in 1..Len(borrowRecords) :
     /\ borrowRecords[i].book = b
     /\ borrowRecords[i].user = u
     /\ ~IsOpen(borrowRecords[i])}

\* mutant: the lookup filters on returnedAt: Not(IsNull())
FindOpenRecordClosed(b, u) ==
  IF ClosedRecords(b, u) = {} THEN 0 ELSE Min(ClosedRecords(b, u))

\* findOne(BorrowRecord, {book, user, returnedAt: IsNull()}): a matching row or null
FindOpenRecord(b, u) ==
  IF OpenRecords(b, u) = {} THEN 0 ELSE Min(OpenRecords(b, u))

\* bookRepository.findOneBy({ isbn })
FindByIsbn(i) == {b \in 1..Len(books) : books[b].isbn = i}

\* value the database stores in returnedAt when the INSERT omits it
\* (returnedAt is declared @CreateDateColumn({ nullable: true }))
InsertedReturnedAt == IF returnedAtDefault = "NOW" THEN clock ELSE NULL

\* the call request slot p is running, and its arguments
Call(p) == op[p]

\* the request carries no uploaded file
NoFile == [originalname |-> "undefined", size |-> 0]

NewCall(n, b, u, q, i) ==
  [name |-> n, id |-> b, user |-> u, quantity |-> q, isbn |-> i, file |-> NoFile]

NoCall == NewCall("none", 0, 0, Undefined, 0)

\* no answer yet: the slot never ran a call, or its call is still running
NoResult == "pending"

Running(p) == pc[p] # "idle"

Borrowing == {p \in Procs : Running(p) /\ op[p].name = "borrow"}

\* ---- bookkeeping shared by the handlers ----
\* a request arrives in a free slot
Issue(p, c, first) ==
  /\ pc[p] = "idle"
  /\ op' = [op EXCEPT ![p] = c]
  /\ result' = [result EXCEPT ![p] = NoResult]
  /\ pc' = [pc EXCEPT ![p] = first]

\* the handler of slot p resolves or throws: the slot is free again
Finish(p, res) ==
  /\ result' = [result EXCEPT ![p] = res]
  /\ UNCHANGED op
  /\ pc' = [pc EXCEPT ![p] = "idle"]
  /\ book' = [book EXCEPT ![p] = NoBook]
  /\ rec' = [rec EXCEPT ![p] = 0]

\* mutant: the end of the transaction leaves its row locks in place
ReleaseNothing(p) == UNCHANGED lock

\* mutant: only a COMMIT releases the row locks, an aborted transaction keeps them
ReleaseOnCommit(p) ==
  lock' = [b \in DOMAIN lock |-> IF lock[b] = p /\ result'[p] = "ok" THEN 0 ELSE lock[b]]

\* entityManager.transaction ends (COMMIT or ROLLBACK): its row locks are released
Release(p) == lock' = [b \in DOMAIN lock |-> IF lock[b] = p THEN 0 ELSE lock[b]]

\* mutant: the UPDATE of the save has no WHERE id = ...
SaveBookEveryRow(bk) ==
  [t \in DOMAIN books |-> [books[t] EXCEPT !.availableQuantity = bk.availableQuantity]]

\* transactional save of the Book entity a borrow or return holds under the
\* row lock: nothing can write the row between the save's re-read and its
\* UPDATE, so the row ends with the values of the in-memory entity
SaveBook(bk) == [books EXCEPT ![bk.id] = [isbn |-> bk.isbn, quantity |-> bk.quantity,
                                           availableQuantity |-> bk.availableQuantity]]

LoadBook(b) == [id |-> b, isbn |-> books[b].isbn, quantity |-> books[b].quantity,
                availableQuantity |-> books[b].availableQuantity]

\* history of the last committed writes to a Book: a borrow (its borrower, and
\* the availableQuantity and number of BorrowRecords of the Book before it),
\* and whether the same borrower's return was the next write
NoTrip == [user |-> 0, availableQuantity |-> 0, records |-> 0, returned |-> FALSE]

RecordsOfBook(b) == {i \in 1..Len(borrowRecords) : borrowRecords[i].book = b}

\* HttpClientService with no request made yet
NoRequest == [state |-> "idle", maxRetries |-> 0, sent |-> 0, retryCount |-> 0,
              error |-> [status |-> 0, code |-> "none", message |-> "none"]]

\* the Home page before it is mounted
NoHome == [role |-> "none", user |-> 0, page |-> 0, fetch |-> "idle",
           booksResponse |-> "none", historyResponse |-> "none",
           isLoading |-> TRUE, books |-> << >>, totalPages |-> 0,
           borrowedBookIds |-> {}, notification |-> "none"]

\* mutant: a missing Book is reported as a bad request
BookNotFoundAsBadRequest(p) == Finish(p, "BadRequest")

\* throw new NotFoundException(`Book with ID ${id} not found.`)
BookNotFound(p) == Finish(p, "NotFound")

Init ==
  /\ books = << >>
  /\ borrowRecords = << >>
  /\ lock = [b \in BookIds |-> 0]
  /\ pc = [p \in Procs |-> "idle"]
  /\ op = [p \in Procs |-> NoCall]
  /\ book = [p \in Procs |-> NoBook]
  /\ rec = [p \in Procs |-> 0]
  /\ result = [p \in Procs |-> NoResult]
  /\ clock = 1
  /\ returnedAtDefault \in {"NULL", "NOW"}
  /\ covers = << >>
  /\ coverImagePath = [p \in Procs |-> NULL]
  /\ http = NoRequest
  /\ lastBorrow = [b \in BookIds |-> NoTrip]
  /\ databaseEntity = [p \in Procs |-> NoBook]
  /\ home = NoHome
  /\ users = << >>

\* ---- BooksService.create ----
CallCreate(p) ==
  \E i \in Isbns, q \in CreateQuantities :
    /\ Issue(p, NewCall("create", 0, 0, q, i), "create_find")
    /\ UNCHANGED <<books, borrowRecords, lock, book, rec, clock, returnedAtDefault, covers, coverImagePath, http, users, home, lastBorrow, databaseEntity>>

\* findOneBy({ isbn }) and the ConflictException
CreateFind(p) ==
  /\ pc[p] = "create_find"
  /\ IF FindByIsbn(Call(p).isbn) # {}
       THEN Finish(p, "Conflict")
       ELSE /\ pc' = [pc EXCEPT ![p] = IF Call(p).file = NoFile THEN "create_save"
                                       ELSE "create_file"]
            /\ UNCHANGED <<op, result, book, rec>>
  /\ UNCHANGED <<books, borrowRecords, lock, clock, returnedAtDefault, covers, coverImagePath, http, users, home, lastBorrow, databaseEntity>>

\* const allowedExtensions = ['.png', '.jpeg', '.jpg']; const maxFileSize = 5 * 1024 * 1024
allowedExtensions == {".png", ".jpeg", ".jpg"}
maxFileSize == 5 * 1024 * 1024

\* path.extname(file.originalname), for the names a request is sent with
ExtName(originalname) ==
  CASE originalname = "cover.png" -> ".png"
    [] originalname = "COVER.JPG" -> ".JPG"
    [] originalname = "cover.jpeg" -> ".jpeg"
    [] originalname = "cover.gif" -> ".gif"
    [] originalname = "cover.png.exe" -> ".exe"
    [] OTHER -> ""

\* String.prototype.toLowerCase, for the extensions above
ToLowerCase(ext) == IF ext = ".JPG" THEN ".jpg" ELSE ext

\* the files a request can upload as coverimage
OriginalNames == {"cover.png", "COVER.JPG", "cover.jpeg", "cover.gif", "cover.png.exe", "cover"}
Files == {[originalname |-> n, size |-> sz] :
            n \in OriginalNames, sz \in {maxFileSize, maxFileSize + 1}}

\* !allowedExtensions.includes(fileExt)
BadExtension(file) == ToLowerCase(ExtName(file.originalname)) \notin allowedExtensions

\* file.size > maxFileSize
TooLarge(file) == file.size > maxFileSize

\* coverImage: coverImagePath of the new Book: file path (if any) belongs to Book id
SetCoverImage(path, id) == IF path = NULL THEN covers ELSE [covers EXCEPT ![path] = id]

\* POST /books with or without a coverimage part
CallCreateWithCover(p) ==
  \E i \in Isbns, q \in CreateQuantities, f \in Files \cup {NoFile} :
    /\ Issue(p, [NewCall("create", 0, 0, q, i) EXCEPT !.file = f], "create_find")
    /\ UNCHANGED <<books, borrowRecords, lock, book, rec, clock, returnedAtDefault, covers,
                   coverImagePath, http, users, home, lastBorrow, databaseEntity>>

\* if (file): the extension and size checks, then fs.writeFile(savePath, file.buffer)
\* under a fresh uuid name; a writeFile that fails throws the
\* InternalServerErrorException (taken here to leave no file behind)
CreateFile(p) ==
  /\ pc[p] = "create_file"
  /\ IF BadExtension(Call(p).file) \/ TooLarge(Call(p).file)
       THEN /\ Finish(p, "BadRequest")
            /\ UNCHANGED <<covers, coverImagePath>>
       ELSE \/ /\ covers' = Append(covers, 0)
               /\ coverImagePath' = [coverImagePath EXCEPT ![p] = Len(covers) + 1]
               /\ pc' = [pc EXCEPT ![p] = "create_save"]
               /\ UNCHANGED <<op, result, book, rec>>
            \/ /\ Finish(p, "Internal")
               /\ UNCHANGED <<covers, coverImagePath>>
  /\ UNCHANGED <<books, borrowRecords, lock, clock, returnedAtDefault, http, users, home,
                 lastBorrow, databaseEntity>>

\* bookRepository.save(book): INSERT, refused by the unique index on isbn
CreateSave(p) ==
  /\ pc[p] = "create_save"
  /\ IF FindByIsbn(Call(p).isbn) # {}
       THEN /\ Finish(p, "QueryFailed")
            /\ UNCHANGED <<books, covers>>
       ELSE /\ books' = Append(books, [isbn |-> Call(p).isbn,
                                       quantity |-> Call(p).quantity,
                                       availableQuantity |-> Call(p).quantity])
            /\ covers' = SetCoverImage(coverImagePath[p], Len(books) + 1)
            /\ Finish(p, "ok")
  /\ coverImagePath' = [coverImagePath EXCEPT ![p] = NULL]
  /\ UNCHANGED <<borrowRecords, lock, clock, returnedAtDefault, http, users, home, lastBorrow, databaseEntity>>

\* ---- BooksService.update ----
CallUpdate(p) ==
  \E b \in BookIds, q \in UpdateQuantities :
    /\ Issue(p, NewCall("update", b, 0, q, 0), "update_find")
    /\ UNCHANGED <<books, borrowRecords, lock, book, rec, clock, returnedAtDefault, covers, coverImagePath, http, users, home, lastBorrow, databaseEntity>>

\* findOne(id): a plain SELECT, it neither takes nor waits for a row lock
UpdateFind(p) ==
  /\ pc[p] = "update_find"
  /\ IF BookExists(Call(p).id)
       THEN /\ book' = [book EXCEPT ![p] = LoadBook(Call(p).id)]
            /\ pc' = [pc EXCEPT ![p] = "update_save"]
            /\ UNCHANGED <<op, result, rec>>
       ELSE BookNotFound(p)
  /\ UNCHANGED <<books, borrowRecords, lock, clock, returnedAtDefault, covers, coverImagePath, http, users, home, lastBorrow, databaseEntity>>

borrowedCount(bk) == bk.quantity - bk.availableQuantity

\* the entity after the quantity branch and Object.assign(book, updateBookDto)
Updated(bk, q) ==
  IF q = Undefined THEN bk
  ELSE [bk EXCEPT !.availableQuantity = q - borrowedCount(bk), !.quantity = q]

\* mutant: the comparison is <=
UpdateRejectedInclusive(bk, q) == q # Undefined /\ q <= borrowedCount(bk)

\* updateBookDto.quantity !== undefined && updateBookDto.quantity < borrowedCount
UpdateRejected(bk, q) == q # Undefined /\ q < borrowedCount(bk)

\* the BadRequestException of the quantity branch
UpdateReject(p) ==
  /\ pc[p] = "update_save"
  /\ UpdateRejected(book[p], Call(p).quantity)
  /\ Finish(p, "BadRequest")
  /\ UNCHANGED <<books, borrowRecords, lock, clock, returnedAtDefault, covers, coverImagePath, http, users, home, lastBorrow, databaseEntity>>

\* bookRepository.save(book), first statement: save re-reads the row by id with
\* a plain SELECT to find out which columns of the entity differ from it
UpdateSaveLoad(p) ==
  /\ pc[p] = "update_save"
  /\ ~UpdateRejected(book[p], Call(p).quantity)
  /\ databaseEntity' = [databaseEntity EXCEPT ![p] = LoadBook(Call(p).id)]
  /\ pc' = [pc EXCEPT ![p] = "update_write"]
  /\ UNCHANGED <<books, borrowRecords, lock, op, book, rec, result, clock,
                 returnedAtDefault, covers, coverImagePath, http, users, home, lastBorrow>>

\* the columns of entity e that differ from the re-read row d
ChangedColumns(e, d) == {c \in {"isbn", "quantity", "availableQuantity"} : e[c] # d[c]}

\* UPDATE book SET <changed columns> WHERE id = ...
UpdateColumns(row, e, cs) == [c \in DOMAIN row |-> IF c \in cs THEN e[c] ELSE row[c]]

\* bookRepository.save(book), second statement: an UPDATE of the changed
\* columns only, which waits while another transaction holds the row's
\* FOR UPDATE lock; with no changed column no statement is sent
UpdateSaveWrite(p) ==
  /\ pc[p] = "update_write"
  /\ LET b  == Call(p).id
         e  == Updated(book[p], Call(p).quantity)
         cs == ChangedColumns(e, databaseEntity[p]) IN
       /\ cs # {} => lock[b] = 0
       /\ UpdateColumns(books[b], e, cs).availableQuantity <= MaxAvailable
       /\ books' = [books EXCEPT ![b] = UpdateColumns(@, e, cs)]
       /\ lastBorrow' = [lastBorrow EXCEPT ![b] = IF cs # {} THEN NoTrip ELSE @]
  /\ databaseEntity' = [databaseEntity EXCEPT ![p] = NoBook]
  /\ Finish(p, "ok")
  /\ UNCHANGED <<borrowRecords, lock, clock, returnedAtDefault, covers, coverImagePath, http, users, home>>

\* ---- BooksService.borrow ----
CallBorrow(p) ==
  \E b \in BookIds, u \in Users :
    /\ Len(borrowRecords) + Cardinality(Borrowing) < MaxRecords
    /\ Issue(p, NewCall("borrow", b, u, Undefined, 0), "borrow_find_book")
    /\ UNCHANGED <<books, borrowRecords, lock, book, rec, clock, returnedAtDefault, covers, coverImagePath, http, users, home, lastBorrow, databaseEntity>>

\* mutant: findOne without the lock option never waits
CanLockAlways(b) == TRUE

\* mutant: the lock is taken on the whole table
CanLockTable(b) == \A t \in DOMAIN lock : lock[t] = 0

\* SELECT ... FOR UPDATE returns once no other transaction holds the row lock
CanLock(b) == lock[b] = 0

\* findOne(Book, { lock: pessimistic_write }): SELECT ... FOR UPDATE waits for
\* the row lock; with no such row it locks nothing and the handler throws
BorrowFindBook(p) ==
  /\ pc[p] = "borrow_find_book"
  /\ IF BookExists(Call(p).id)
       THEN /\ CanLock(Call(p).id)
            /\ lock' = [lock EXCEPT ![Call(p).id] = p]
            /\ book' = [book EXCEPT ![p] = LoadBook(Call(p).id)]
            /\ pc' = [pc EXCEPT ![p] = "borrow_find_record"]
            /\ UNCHANGED <<op, result, rec>>
       ELSE /\ BookNotFound(p)
            /\ UNCHANGED lock
  /\ UNCHANGED <<books, borrowRecords, clock, returnedAtDefault, covers, coverImagePath, http, users, home, lastBorrow, databaseEntity>>

\* mutant: the guard tests < 0
NoCopiesNegative(bk) == bk.availableQuantity < 0

\* mutant: a Title with an open Loan goes to the Loan lookup first
NoCopiesAfterLoans(bk) == bk.availableQuantity <= 0 /\ OpenRecordsOfBook(bk.id) = {}

\* the guard of the BadRequestException of borrow
NoCopies(bk) == bk.availableQuantity <= 0

\* availableQuantity <= 0 throws; otherwise the open record of (book, user) is looked up
BorrowFindRecord(p) ==
  /\ pc[p] = "borrow_find_record"
  /\ IF NoCopies(book[p])
       THEN /\ Finish(p, "BadRequest")
            /\ Release(p)
       ELSE /\ rec' = [rec EXCEPT ![p] = FindOpenRecord(Call(p).id, Call(p).user)]
            /\ pc' = [pc EXCEPT ![p] = "borrow_save_book"]
            /\ UNCHANGED <<op, result, book, lock>>
  /\ UNCHANGED <<books, borrowRecords, clock, returnedAtDefault, covers, coverImagePath, http, users, home, lastBorrow, databaseEntity>>

\* mutant: the decrement takes two copies
TakeTwo(bk) == [bk EXCEPT !.availableQuantity = @ - 2]

\* book.availableQuantity -= 1
Take(bk) == [bk EXCEPT !.availableQuantity = @ - 1]

\* an existing open record throws; otherwise availableQuantity -= 1 and save(book),
\* which stays invisible to other transactions until the commit
BorrowSaveBook(p) ==
  /\ pc[p] = "borrow_save_book"
  /\ IF rec[p] # 0
       THEN /\ Finish(p, "Conflict")
            /\ Release(p)
       ELSE /\ book' = [book EXCEPT ![p] = Take(book[p])]
            /\ pc' = [pc EXCEPT ![p] = "borrow_save_record"]
            /\ UNCHANGED <<op, result, rec, lock>>
  /\ UNCHANGED <<books, borrowRecords, clock, returnedAtDefault, covers, coverImagePath, http, users, home, lastBorrow, databaseEntity>>

\* create + save(borrowRecord), then COMMIT: both writes become visible at once
BorrowSaveRecord(p) ==
  /\ pc[p] = "borrow_save_record"
  /\ books' = SaveBook(book[p])
  /\ borrowRecords' = Append(borrowRecords,
        [book |-> Call(p).id, user |-> Call(p).user,
         borrowedAt |-> clock, returnedAt |-> InsertedReturnedAt])
  /\ clock' = clock + 1
  /\ Finish(p, "ok")
  /\ Release(p)
  /\ lastBorrow' = [lastBorrow EXCEPT ![Call(p).id] =
        [user |-> Call(p).user,
         availableQuantity |-> books[Call(p).id].availableQuantity,
         records |-> Cardinality(RecordsOfBook(Call(p).id)),
         returned |-> FALSE]]
  /\ UNCHANGED <<returnedAtDefault, covers, coverImagePath, http, users, home, databaseEntity>>

\* mutant: the Book saved by the transaction survives its abort
RollbackKeepsBook(bk) == SaveBook(bk)

\* entityManager.transaction catches the error, sends ROLLBACK and rethrows:
\* the Book table after the abort of a transaction that had saved bk
Rollback(bk) == books

\* save(borrowRecord) fails (the INSERT is refused, e.g. the user row of the
\* token no longer exists, or the connection drops): the transaction aborts
BorrowSaveRecordFails(p) ==
  /\ pc[p] = "borrow_save_record"
  /\ books' = Rollback(book[p])
  /\ Finish(p, "QueryFailed")
  /\ Release(p)
  /\ UNCHANGED <<borrowRecords, clock, returnedAtDefault, covers, coverImagePath, http, users, home, lastBorrow, databaseEntity>>

\* ---- BooksService.return ----
CallReturn(p) ==
  \E b \in BookIds, u \in Users :
    /\ Issue(p, NewCall("return", b, u, Undefined, 0), "return_find_book")
    /\ UNCHANGED <<books, borrowRecords, lock, book, rec, clock, returnedAtDefault, covers, coverImagePath, http, users, home, lastBorrow, databaseEntity>>

ReturnFindBook(p) ==
  /\ pc[p] = "return_find_book"
  /\ IF BookExists(Call(p).id)
       THEN /\ CanLock(Call(p).id)
            /\ lock' = [lock EXCEPT ![Call(p).id] = p]
            /\ book' = [book EXCEPT ![p] = LoadBook(Call(p).id)]
            /\ pc' = [pc EXCEPT ![p] = "return_find_record"]
            /\ UNCHANGED <<op, result, rec>>
       ELSE /\ BookNotFound(p)
            /\ UNCHANGED lock
  /\ UNCHANGED <<books, borrowRecords, clock, returnedAtDefault, covers, coverImagePath, http, users, home, lastBorrow, databaseEntity>>

\* findOne(BorrowRecord, { book, user, returnedAt: IsNull() })
ReturnFindRecord(p) ==
  /\ pc[p] = "return_find_record"
  /\ rec' = [rec EXCEPT ![p] = FindOpenRecord(Call(p).id, Call(p).user)]
  /\ pc' = [pc EXCEPT ![p] = "return_save_book"]
  /\ UNCHANGED <<books, borrowRecords, lock, op, book, result, clock,
                 returnedAtDefault, covers, coverImagePath, http, users, home, lastBorrow, databaseEntity>>

\* mutant: the guard tests >
AllAvailableStrict(bk) == bk.availableQuantity > bk.quantity

\* the guard of the InternalServerErrorException of return
AllAvailable(bk) == bk.availableQuantity >= bk.quantity

\* mutant: the increment is left out
GiveBackNothing(bk) == bk

\* book.availableQuantity += 1
GiveBack(bk) == [bk EXCEPT !.availableQuantity = @ + 1]

\* mutant: the copies are compared before the record is looked at
ReturnFailureCopiesFirst(r, bk) ==
  IF AllAvailable(bk) THEN "Internal" ELSE IF r = 0 THEN "NotFound" ELSE "none"

\* the two throws of return after the locked read, in the order of the code:
\* if (!borrowRecord) NotFoundException, then
\* if (availableQuantity >= quantity) InternalServerErrorException
ReturnFailure(r, bk) ==
  IF r = 0 THEN "NotFound" ELSE IF AllAvailable(bk) THEN "Internal" ELSE "none"

\* no record throws NotFound, availableQuantity >= quantity throws the
\* InternalServerErrorException; otherwise availableQuantity += 1 and save(book)
ReturnSaveBook(p) ==
  /\ pc[p] = "return_save_book"
  /\ IF ReturnFailure(rec[p], book[p]) # "none"
       THEN /\ Finish(p, ReturnFailure(rec[p], book[p]))
            /\ Release(p)
       ELSE /\ book' = [book EXCEPT ![p] = GiveBack(book[p])]
            /\ pc' = [pc EXCEPT ![p] = "return_save_record"]
            /\ UNCHANGED <<op, result, rec, lock>>
  /\ UNCHANGED <<books, borrowRecords, clock, returnedAtDefault, covers, coverImagePath, http, users, home, lastBorrow, databaseEntity>>

\* borrowRecord.returnedAt = new Date(); save(borrowRecord), then COMMIT
ReturnSaveRecord(p) ==
  /\ pc[p] = "return_save_record"
  /\ books' = SaveBook(book[p])
  /\ borrowRecords' = [borrowRecords EXCEPT ![rec[p]].returnedAt = clock]
  /\ clock' = clock + 1
  /\ Finish(p, "ok")
  /\ Release(p)
  /\ lastBorrow' = [lastBorrow EXCEPT ![Call(p).id] =
        IF @.user = Call(p).user /\ ~@.returned
        THEN [@ EXCEPT !.returned = TRUE] ELSE NoTrip]
  /\ UNCHANGED <<returnedAtDefault, covers, coverImagePath, http, users, home, databaseEntity>>

\* save(borrowRecord) fails in return: the transaction aborts
ReturnSaveRecordFails(p) ==
  /\ pc[p] = "return_save_record"
  /\ books' = Rollback(book[p])
  /\ Finish(p, "QueryFailed")
  /\ Release(p)
  /\ UNCHANGED <<borrowRecords, clock, returnedAtDefault, covers, coverImagePath, http, users, home, lastBorrow, databaseEntity>>

Next ==
  \E p \in Procs :
    \/ CallCreate(p)
    \/ CreateFind(p)
    \/ CreateSave(p)
    \/ CallUpdate(p)
    \/ UpdateFind(p)
    \/ UpdateReject(p)
    \/ UpdateSaveLoad(p)
    \/ UpdateSaveWrite(p)
    \/ CallBorrow(p)
    \/ BorrowFindBook(p)
    \/ BorrowFindRecord(p)
    \/ BorrowSaveBook(p)
    \/ BorrowSaveRecord(p)
    \/ BorrowSaveRecordFails(p)
    \/ CallReturn(p)
    \/ ReturnFindBook(p)
    \/ ReturnFindRecord(p)
    \/ ReturnSaveBook(p)
    \/ ReturnSaveRecord(p)
    \/ ReturnSaveRecordFails(p)

Spec == Init /\ [][Next]_vars

\* ---- create calls with cover files ----
InitCreate ==
  /\ books = << >>
  /\ borrowRecords = << >>
  /\ lock = [b \in BookIds |-> 0]
  /\ pc = [p \in Procs |-> "idle"]
  /\ op = [p \in Procs |-> NoCall]
  /\ book = [p \in Procs |-> NoBook]
  /\ rec = [p \in Procs |-> 0]
  /\ result = [p \in Procs |-> NoResult]
  /\ clock = 1
  /\ returnedAtDefault = "NULL"
  /\ covers = << >>
  /\ coverImagePath = [p \in Procs |-> NULL]
  /\ http = NoRequest
  /\ lastBorrow = [b \in BookIds |-> NoTrip]
  /\ databaseEntity = [p \in Procs |-> NoBook]
  /\ home = NoHome
  /\ users = << >>

NextCreate ==
  \E p \in Procs :
    \/ CallCreateWithCover(p)
    \/ CreateFind(p)
    \/ CreateFile(p)
    \/ CreateSave(p)

SpecCreate == InitCreate /\ [][NextCreate]_vars

\* ---- two borrow calls racing for one Title ----
\* The state right after create stored a Title: no BorrowRecord yet, and two
\* borrow requests for that Title have just arrived.
Racers == {1, 2}

InitRace ==
  /\ \E q \in CreateQuantities :
       books = <<[isbn |-> 1, quantity |-> q, availableQuantity |-> q]>>
  /\ borrowRecords = << >>
  /\ lock = [b \in BookIds |-> 0]
  /\ \E us \in [Racers -> Users] :
       op = [p \in Procs |-> IF p \in Racers
                               THEN NewCall("borrow", 1, us[p], Undefined, 0)
                               ELSE NoCall]
  /\ pc = [p \in Procs |-> IF p \in Racers THEN "borrow_find_book" ELSE "idle"]
  /\ book = [p \in Procs |-> NoBook]
  /\ rec = [p \in Procs |-> 0]
  /\ result = [p \in Procs |-> NoResult]
  /\ clock = 1
  /\ returnedAtDefault \in {"NULL", "NOW"}
  /\ covers = << >>
  /\ coverImagePath = [p \in Procs |-> NULL]
  /\ http = NoRequest
  /\ lastBorrow = [b \in BookIds |-> NoTrip]
  /\ databaseEntity = [p \in Procs |-> NoBook]
  /\ home = NoHome
  /\ users = << >>

NextRace ==
  \E p \in Racers :
    \/ BorrowFindBook(p)
    \/ BorrowFindRecord(p)
    \/ BorrowSaveBook(p)
    \/ BorrowSaveRecord(p)

SpecRace == InitRace /\ [][NextRace]_vars

\* ---- seedDatabase: the script that fills a database before first use ----
booksToSeed ==
  << [isbn |-> 1, quantity |-> 5, availableQuantity |-> 5],   \* The Lord of the Rings
     [isbn |-> 2, quantity |-> 3, availableQuantity |-> 3],   \* To Kill a Mockingbird
     [isbn |-> 3, quantity |-> 7, availableQuantity |-> 7],   \* 1984
     [isbn |-> 4, quantity |-> 4, availableQuantity |-> 2],   \* The Great Gatsby
     [isbn |-> 5, quantity |-> 6, availableQuantity |-> 6] >> \* Dune

\* the slot that runs the script
Seeder == 1

\* the entry of booksToSeed the loop is at
SeedAt == op[Seeder].isbn

\* for (const bookData of booksToSeed): the next entry, or the end of the script
SeedAdvance ==
  IF SeedAt < Len(booksToSeed)
  THEN /\ op' = [op EXCEPT ![Seeder].isbn = @ + 1]
       /\ pc' = [pc EXCEPT ![Seeder] = "seed_find"]
       /\ UNCHANGED result
  ELSE /\ pc' = [pc EXCEPT ![Seeder] = "idle"]
       /\ result' = [result EXCEPT ![Seeder] = "ok"]
       /\ UNCHANGED op

\* bookRepository.findOneBy({ isbn }): an existing book is skipped
SeedFind ==
  /\ pc[Seeder] = "seed_find"
  /\ IF FindByIsbn(booksToSeed[SeedAt].isbn) # {}
       THEN SeedAdvance
       ELSE /\ pc' = [pc EXCEPT ![Seeder] = "seed_save"]
            /\ UNCHANGED <<op, result>>
  /\ UNCHANGED <<books, borrowRecords, lock, book, rec, clock, returnedAtDefault, covers, coverImagePath, http, users, home,
                 lastBorrow, databaseEntity>>

\* bookRepository.create(bookData) and save: the row is inserted as listed
SeedSave ==
  /\ pc[Seeder] = "seed_save"
  /\ books' = Append(books, booksToSeed[SeedAt])
  /\ SeedAdvance
  /\ UNCHANGED <<borrowRecords, lock, book, rec, clock, returnedAtDefault, covers, coverImagePath, http, users, home,
                 lastBorrow, databaseEntity>>

\* The script starts on a database in which any of the books it lists may be
\* left from an earlier run; nothing else is running.
InitSeed ==
  /\ \E S \in SUBSET (1..Len(booksToSeed)) :
       books = SelectSeq(booksToSeed, LAMBDA r : r.isbn \in S)
  /\ borrowRecords = << >>
  /\ lock = [b \in BookIds |-> 0]
  /\ op = [p \in Procs |-> IF p = Seeder THEN NewCall("seed", 0, 0, Undefined, 1)
                                          ELSE NoCall]
  /\ pc = [p \in Procs |-> IF p = Seeder THEN "seed_find" ELSE "idle"]
  /\ book = [p \in Procs |-> NoBook]
  /\ rec = [p \in Procs |-> 0]
  /\ result = [p \in Procs |-> NoResult]
  /\ clock = 1
  /\ returnedAtDefault \in {"NULL", "NOW"}
  /\ covers = << >>
  /\ coverImagePath = [p \in Procs |-> NULL]
  /\ http = NoRequest
  /\ lastBorrow = [b \in BookIds |-> NoTrip]
  /\ databaseEntity = [p \in Procs |-> NoBook]
  /\ home = NoHome
  /\ users = << >>

NextSeed ==
  \/ SeedFind
  \/ SeedSave

SpecSeed == InitSeed /\ [][NextSeed]_vars

\* ---- borrow and return calls on two different Titles ----
\* Two Titles are stored; request slot p only ever calls borrow and return on
\* Title p, so the two slots never touch the same row.
TitleOf(p) == p

InitPair ==
  /\ \E qs \in [Racers -> CreateQuantities] :
       books = [p \in Racers |-> [isbn |-> p, quantity |-> qs[p],
                                   availableQuantity |-> qs[p]]]
  /\ borrowRecords = << >>
  /\ lock = [b \in Racers |-> 0]
  /\ op = [p \in Procs |-> NoCall]
  /\ pc = [p \in Procs |-> "idle"]
  /\ book = [p \in Procs |-> NoBook]
  /\ rec = [p \in Procs |-> 0]
  /\ result = [p \in Procs |-> NoResult]
  /\ clock = 1
  /\ returnedAtDefault \in {"NULL", "NOW"}
  /\ covers = << >>
  /\ coverImagePath = [p \in Procs |-> NULL]
  /\ http = NoRequest
  /\ lastBorrow = [b \in Racers |-> NoTrip]
  /\ databaseEntity = [p \in Procs |-> NoBook]
  /\ home = NoHome
  /\ users = << >>

\* BooksController.borrow / returnBook with the id of the slot's Title
CallBorrowOwn(p) ==
  \E u \in Users :
    /\ Len(borrowRecords) + Cardinality(Borrowing) < MaxRecords
    /\ Issue(p, NewCall("borrow", TitleOf(p), u, Undefined, 0), "borrow_find_book")
    /\ UNCHANGED <<books, borrowRecords, lock, book, rec, clock, returnedAtDefault, covers, coverImagePath, http, users, home,
                   lastBorrow, databaseEntity>>

CallReturnOwn(p) ==
  \E u \in Users :
    /\ Issue(p, NewCall("return", TitleOf(p), u, Undefined, 0), "return_find_book")
    /\ UNCHANGED <<books, borrowRecords, lock, book, rec, clock, returnedAtDefault, covers, coverImagePath, http, users, home,
                   lastBorrow, databaseEntity>>

\* the steps of a borrow or return that slot p has started
TransactionStep(p) ==
  \/ BorrowFindBook(p)
  \/ BorrowFindRecord(p)
  \/ BorrowSaveBook(p)
  \/ BorrowSaveRecord(p)
  \/ BorrowSaveRecordFails(p)
  \/ ReturnFindBook(p)
  \/ ReturnFindRecord(p)
  \/ ReturnSaveBook(p)
  \/ ReturnSaveRecord(p)
  \/ ReturnSaveRecordFails(p)

NextPair ==
  \E p \in Racers :
    \/ CallBorrowOwn(p)
    \/ CallReturnOwn(p)
    \/ TransactionStep(p)

\* Request slot 2 keeps being served: the event loop resumes a handler whose
\* query has answered, and the database answers a query that waits for no
\* lock. Nothing is assumed about slot 1, which may stall at any point.
SpecPair == InitPair /\ [][NextPair]_vars /\ WF_vars(TransactionStep(2))

\* ---- borrow, return and update calls on one stored Title, served fairly ----
\* the locked read of a borrow or return: the step that waits for the row lock
LockStep(p) == BorrowFindBook(p) \/ ReturnFindBook(p)

\* the steps of a borrow or return after its locked read, up to COMMIT or ROLLBACK
HolderStep(p) ==
  \/ BorrowFindRecord(p)
  \/ BorrowSaveBook(p)
  \/ BorrowSaveRecord(p)
  \/ BorrowSaveRecordFails(p)
  \/ ReturnFindRecord(p)
  \/ ReturnSaveBook(p)
  \/ ReturnSaveRecord(p)
  \/ ReturnSaveRecordFails(p)

InitLive ==
  /\ \E q \in CreateQuantities :
       books = <<[isbn |-> 1, quantity |-> q, availableQuantity |-> q]>>
  /\ borrowRecords = << >>
  /\ lock = [b \in BookIds |-> 0]
  /\ op = [p \in Procs |-> NoCall]
  /\ pc = [p \in Procs |-> "idle"]
  /\ book = [p \in Procs |-> NoBook]
  /\ rec = [p \in Procs |-> 0]
  /\ result = [p \in Procs |-> NoResult]
  /\ clock = 1
  /\ returnedAtDefault \in {"NULL", "NOW"}
  /\ covers = << >>
  /\ coverImagePath = [p \in Procs |-> NULL]
  /\ http = NoRequest
  /\ lastBorrow = [b \in BookIds |-> NoTrip]
  /\ databaseEntity = [p \in Procs |-> NoBook]
  /\ home = NoHome
  /\ users = << >>

\* the slot update requests arrive in: PATCH /books/:id is for the staff, the
\* other slot serves borrowers only
Librarians == {1}

NextLive ==
  \E p \in Procs :
    \/ (p \in Librarians /\ CallUpdate(p))
    \/ UpdateFind(p)
    \/ UpdateReject(p)
    \/ UpdateSaveLoad(p)
    \/ UpdateSaveWrite(p)
    \/ CallBorrow(p)
    \/ CallReturn(p)
    \/ LockStep(p)
    \/ HolderStep(p)

\* A transaction that holds its lock keeps taking steps (the event loop resumes
\* a handler whose query has answered), and the database grants a row lock
\* that becomes free again and again to each transaction waiting for it.
\* Nothing is assumed about update calls or about the arrival of requests.
SpecLive ==
  /\ InitLive /\ [][NextLive]_vars
  /\ \A p \in Procs : WF_vars(HolderStep(p)) /\ SF_vars(LockStep(p))

\* ---- HttpClientService: the retrying HTTP client ----
\* constructor defaults
DefaultMaxRetries == 3
retriableStatusCodes == {408, 429, 500, 502, 503, 504}
retriableErrorCodes ==
  {"ETIMEDOUT", "ECONNREFUSED", "ECONNRESET", "ENOTFOUND", "ENETUNREACH",
   "EHOSTUNREACH", "ECONNABORTED", "EADDRINUSE", "EADDRNOTAVAIL", "EPIPE",
   "EMFILE", "ENFILE", "EAI_AGAIN", "ENETDOWN", "ENONET", "EHOSTDOWN",
   "EPROTO", "ENOPROTOOPT", "ENOTSOCK", "ESOCKTNOSUPPORT"}

\* the code axios gives an error that carries a response
AxiosCode(status) == IF status >= 500 THEN "ERR_BAD_RESPONSE" ELSE "ERR_BAD_REQUEST"

\* the AxiosErrors an attempt can fail with: a response with a status outside
\* 2xx (error.response is set), or no response at all (status 0)
ResponseStatuses == {400, 401, 403, 404, 409, 408, 429, 500, 502, 503, 504}
AxiosErrors ==
  {[status |-> st, code |-> AxiosCode(st), message |-> "Request failed with status code"] :
     st \in ResponseStatuses}
  \cup {[status |-> 0, code |-> c, message |-> "Network Error"] :
          c \in {"ECONNRESET", "ECONNABORTED", "ERR_NETWORK", "ERR_CANCELED"}}
  \cup {[status |-> 0, code |-> "ERR_BAD_RESPONSE", message |-> "maxContentLength size exceeded"],
        [status |-> 0, code |-> "ERR_FR_MAX_CONTENT_LENGTH_EXCEEDED",
         message |-> "Maximum response size reached"]}

\* error.message?.includes("maxContentLength")
IncludesMaxContentLength(message) == message \in {"maxContentLength size exceeded"}

\* mutant: every failure is retried
retryConditionAlways(error) == TRUE

\* retryCondition of the axiosRetry configuration
retryCondition(error) ==
  \/ error.status # 0 /\ error.status \in retriableStatusCodes
  \/ error.code # "none" /\ error.code \in retriableErrorCodes
  \/ IncludesMaxContentLength(error.message)
  \/ error.code = "ERR_FR_MAX_CONTENT_LENGTH_EXCEEDED"

\* axiosRetry(instance, { retries: this.maxRetries, retryCondition }): a failed
\* attempt is retried while fewer than retries retries were made
ShouldRetry(error) == http.retryCount < http.maxRetries /\ retryCondition(error)

\* get / post / put / delete: a request goes out for the first time
HttpRequest ==
  /\ http.state \in {"idle", "resolved", "rejected"}
  /\ http' = [NoRequest EXCEPT !.state = "sent", !.sent = 1, !.maxRetries = http.maxRetries]
  /\ UNCHANGED <<books, borrowRecords, lock, pc, op, book, rec, result, clock,
                 returnedAtDefault, covers, coverImagePath, lastBorrow, databaseEntity,
                 home, users>>

\* a 2xx response: handleResponse returns it to the caller
HttpResolve ==
  /\ http.state = "sent"
  /\ http' = [http EXCEPT !.state = "resolved"]
  /\ UNCHANGED <<books, borrowRecords, lock, pc, op, book, rec, result, clock,
                 returnedAtDefault, covers, coverImagePath, lastBorrow, databaseEntity,
                 home, users>>

\* the attempt fails: axios-retry schedules a retry after retryDelay, or the
\* error goes on to handleError, which logs it and returns Promise.reject(error)
HttpFail ==
  /\ http.state = "sent"
  /\ \E e \in AxiosErrors :
       http' = IF ShouldRetry(e)
               THEN [http EXCEPT !.state = "delay", !.retryCount = @ + 1, !.error = e]
               ELSE [http EXCEPT !.state = "rejected", !.error = e]
  /\ UNCHANGED <<books, borrowRecords, lock, pc, op, book, rec, result, clock,
                 returnedAtDefault, covers, coverImagePath, lastBorrow, databaseEntity,
                 home, users>>

\* the retry delay has passed: the same request is sent again
HttpRetry ==
  /\ http.state = "delay"
  /\ http' = [http EXCEPT !.state = "sent", !.sent = @ + 1]
  /\ UNCHANGED <<books, borrowRecords, lock, pc, op, book, rec, result, clock,
                 returnedAtDefault, covers, coverImagePath, lastBorrow, databaseEntity,
                 home, users>>

\* a client constructed with maxRetries from 0 up to the default
InitHttp ==
  /\ books = << >>
  /\ borrowRecords = << >>
  /\ lock = [b \in BookIds |-> 0]
  /\ pc = [p \in Procs |-> "idle"]
  /\ op = [p \in Procs |-> NoCall]
  /\ book = [p \in Procs |-> NoBook]
  /\ rec = [p \in Procs |-> 0]
  /\ result = [p \in Procs |-> NoResult]
  /\ clock = 1
  /\ returnedAtDefault = "NULL"
  /\ covers = << >>
  /\ coverImagePath = [p \in Procs |-> NULL]
  /\ \E m \in 0..DefaultMaxRetries : http = [NoRequest EXCEPT !.maxRetries = m]
  /\ lastBorrow = [b \in BookIds |-> NoTrip]
  /\ databaseEntity = [p \in Procs |-> NoBook]
  /\ home = NoHome
  /\ users = << >>

NextHttp ==
  \/ HttpRequest
  \/ HttpResolve
  \/ HttpFail
  \/ HttpRetry

SpecHttp == InitHttp /\ [][NextHttp]_vars

\* ---- BooksService.findAll ----
\* mutant: the quotient is rounded down
CeilFloor(total, limit) == total \div limit

\* Math.ceil(total / limit)
Ceil(total, limit) ==
  IF total % limit = 0 THEN total \div limit ELSE (total \div limit) + 1

\* skip((page - 1) * limit).take(limit) over the matching rows, in id order
PageOf(rows, page, limit) ==
  LET skip == (page - 1) * limit
      upto == IF skip + limit < Len(rows) THEN skip + limit ELSE Len(rows) IN
  SubSeq(rows, skip + 1, upto)

\* the PaginatedBooksResult of findAll({ page, limit }) on the stored books
findAll(page, limit) ==
  LET ids == [i \in 1..Len(books) |-> i] IN
  [data |-> PageOf(ids, page, limit), total |-> Len(books), page |-> page,
   limit |-> limit, totalPages |-> Ceil(Len(books), limit)]

\* const { title, author, page = 1, limit = 10 } = query
DefaultPage == 1
DefaultLimit == 10

MaxRows  == 5      \* Book rows in the listed table
MaxLimit == 3      \* largest limit a list request carries
MaxListPage == 3   \* largest page a list request carries

\* page and limit of SearchBookDto: optional, integers from 1
QueryPages == (1..MaxListPage) \cup {Undefined}
QueryLimits == (1..MaxLimit) \cup {Undefined}

NewListCall(page, limit) ==
  [name |-> "findAll", page |-> page, limit |-> limit,
   id |-> 0, user |-> 0, quantity |-> Undefined, isbn |-> 0]

\* GET /books
CallFindAll(p) ==
  \E page \in QueryPages, limit \in QueryLimits :
    /\ Issue(p, NewListCall(page, limit), "find_all")
    /\ UNCHANGED <<books, borrowRecords, lock, book, rec, clock, returnedAtDefault, covers, coverImagePath, http,
                   lastBorrow, databaseEntity, home, users>>

\* getManyAndCount and the PaginatedBooksResult
FindAllAnswer(p) ==
  /\ pc[p] = "find_all"
  /\ Finish(p, findAll(IF Call(p).page = Undefined THEN DefaultPage ELSE Call(p).page,
                       IF Call(p).limit = Undefined THEN DefaultLimit ELSE Call(p).limit))
  /\ UNCHANGED <<books, borrowRecords, lock, clock, returnedAtDefault, covers, coverImagePath, http,
                 lastBorrow, databaseEntity, home, users>>

\* A catalog of any size up to MaxRows, as create stored it, and no request yet.
InitList ==
  /\ \E n \in 0..MaxRows :
       books = [i \in 1..n |-> [isbn |-> i, quantity |-> 1, availableQuantity |-> 1]]
  /\ borrowRecords = << >>
  /\ lock = [b \in BookIds |-> 0]
  /\ pc = [p \in Procs |-> "idle"]
  /\ op = [p \in Procs |-> NoCall]
  /\ book = [p \in Procs |-> NoBook]
  /\ rec = [p \in Procs |-> 0]
  /\ result = [p \in Procs |-> NoResult]
  /\ clock = 1
  /\ returnedAtDefault = "NULL"
  /\ covers = << >>
  /\ coverImagePath = [p \in Procs |-> NULL]
  /\ http = NoRequest
  /\ lastBorrow = [b \in BookIds |-> NoTrip]
  /\ databaseEntity = [p \in Procs |-> NoBook]
  /\ home = NoHome
  /\ users = << >>

NextList ==
  \E p \in Procs :
    \/ CallFindAll(p)
    \/ FindAllAnswer(p)

SpecList == InitList /\ [][NextList]_vars

\* ---- the Home page of the frontend ----
UserRoles == {"member", "librarian", "admin"}

\* const limit = 10
HomeLimit == 10

MaxPage == 2       \* largest page the Home page asks for

\* mutant: the history route is open to every role
RolesAllowAnyone(role, roles) == TRUE

\* RolesGuard: a route without @Roles is open to every logged-in user, a
\* route with @Roles only to the roles it lists
RolesAllow(role, roles) == roles = {} \/ role \in roles

\* @Roles of GET /books (none) and of GET /books/borrowed/history
FindAllRoles == {}
GetBorrowHistoryRoles == {"librarian", "admin"}

\* A logged-in user opens the Home page of a library that holds some of the
\* seeded books and no loans.
InitHome ==
  /\ \E S \in SUBSET (1..Len(booksToSeed)) :
       books = SelectSeq(booksToSeed, LAMBDA r : r.isbn \in S)
  /\ borrowRecords = << >>
  /\ lock = [b \in BookIds |-> 0]
  /\ op = [p \in Procs |-> NoCall]
  /\ pc = [p \in Procs |-> "idle"]
  /\ book = [p \in Procs |-> NoBook]
  /\ rec = [p \in Procs |-> 0]
  /\ result = [p \in Procs |-> NoResult]
  /\ clock = 1
  /\ returnedAtDefault \in {"NULL", "NOW"}
  /\ covers = << >>
  /\ coverImagePath = [p \in Procs |-> NULL]
  /\ http = NoRequest
  /\ lastBorrow = [b \in BookIds |-> NoTrip]
  /\ databaseEntity = [p \in Procs |-> NoBook]
  /\ \E r \in UserRoles, u \in Users : home = [NoHome EXCEPT !.role = r, !.user = u]
  /\ users = << >>

\* fetchData(page): setIsLoading(true) and both requests are sent
HomeFetchData ==
  /\ home.fetch = "idle"
  /\ \E page \in 1..MaxPage :
       home' = [home EXCEPT !.fetch = "awaiting", !.page = page, !.isLoading = TRUE,
                            !.booksResponse = "pending",
                            !.historyResponse = "pending",
                            !.notification = "none"]
  /\ UNCHANGED <<books, borrowRecords, lock, pc, op, book, rec, result, clock,
                 returnedAtDefault, covers, coverImagePath, http, users, lastBorrow, databaseEntity>>

\* GET /books answers
HomeBooksResponds ==
  /\ home.booksResponse = "pending"
  /\ home' = [home EXCEPT !.booksResponse =
                 IF RolesAllow(home.role, FindAllRoles) THEN "ok" ELSE "rejected"]
  /\ UNCHANGED <<books, borrowRecords, lock, pc, op, book, rec, result, clock,
                 returnedAtDefault, covers, coverImagePath, http, users, lastBorrow, databaseEntity>>

\* GET /books/borrowed/history answers: 403 unless the role is listed
HomeHistoryResponds ==
  /\ home.historyResponse = "pending"
  /\ home' = [home EXCEPT !.historyResponse =
                 IF RolesAllow(home.role, GetBorrowHistoryRoles) THEN "ok" ELSE "rejected"]
  /\ UNCHANGED <<books, borrowRecords, lock, pc, op, book, rec, result, clock,
                 returnedAtDefault, covers, coverImagePath, http, users, lastBorrow, databaseEntity>>

\* Promise.all fulfils: setBooks, setTotalPages, setBorrowedBookIds, and the
\* finally block
HomeFetchFulfils ==
  /\ home.fetch = "awaiting"
  /\ home.booksResponse = "ok" /\ home.historyResponse = "ok"
  /\ home' = [home EXCEPT
       !.fetch = "idle", !.isLoading = FALSE,
       !.books = findAll(home.page, HomeLimit).data,
       !.totalPages = findAll(home.page, HomeLimit).totalPages,
       !.borrowedBookIds = {borrowRecords[i].book : i \in
            {j \in 1..Len(borrowRecords) : /\ borrowRecords[j].user = home.user
                                           /\ borrowRecords[j].returnedAt = NULL}}]
  /\ UNCHANGED <<books, borrowRecords, lock, pc, op, book, rec, result, clock,
                 returnedAtDefault, covers, coverImagePath, http, users, lastBorrow, databaseEntity>>

\* Promise.all rejects with the first rejection: the catch block notifies,
\* the state setters are skipped, and the finally block runs
HomeFetchRejects ==
  /\ home.fetch = "awaiting"
  /\ home.booksResponse = "rejected" \/ home.historyResponse = "rejected"
  /\ home' = [home EXCEPT !.fetch = "idle", !.isLoading = FALSE,
                            !.notification = "Failed to load library data."]
  /\ UNCHANGED <<books, borrowRecords, lock, pc, op, book, rec, result, clock,
                 returnedAtDefault, covers, coverImagePath, http, users, lastBorrow, databaseEntity>>

NextHome ==
  \/ HomeFetchData
  \/ HomeBooksResponds
  \/ HomeHistoryResponds
  \/ HomeFetchFulfils
  \/ HomeFetchRejects

SpecHome == InitHome /\ [][NextHome]_vars

\* ---- UsersController and UsersService ----
MaxUsernames == 2  \* distinct usernames offered to register / create

Usernames == 1..MaxUsernames

\* CreateUserDto.role: @IsEnum(UserRole) @IsOptional
BodyRoles == UserRoles \cup {"undefined"}

\* who sends the request: nobody logged in, or a user of some role
Callers == UserRoles \cup {"anonymous"}

\* @Roles(UserRole.ADMIN) of POST /users
CreateUserRoles == {"admin"}

\* mutant: the lookup never finds the user
FindByUsernameNone(n) == {}

\* usersRepository.findOneBy({ username })
FindByUsername(n) == {i \in 1..Len(users) : users[i].username = n}

\* mutant: register passes the body on as it came
RegisterRoleAsSent(r) == r

\* UsersController.register: createUserDto.role = UserRole.MEMBER
RegisterRole(r) == "member"

\* mutant: the role of the dto is stored as it is
CreatedRoleAsSent(r) == r

\* UsersService.create: role: createUserDto.role || UserRole.MEMBER
CreatedRole(r) == IF r = "undefined" THEN "member" ELSE r

NewUserCall(n, name, r, sent, c) ==
  [name |-> n, username |-> name, role |-> r, sent |-> sent, caller |-> c,
   id |-> 0, user |-> 0, quantity |-> Undefined, isbn |-> 0]

\* POST /users/register, open to everybody
CallRegister(p) ==
  \E n \in Usernames, r \in BodyRoles :
    /\ Issue(p, NewUserCall("register", n, RegisterRole(r), r, "anonymous"), "user_find")
    /\ UNCHANGED <<books, borrowRecords, lock, book, rec, clock, returnedAtDefault, covers, coverImagePath, http,
                   lastBorrow, databaseEntity, home, users>>

\* POST /users behind JwtAuthGuard and RolesGuard
CallCreateUser(p) ==
  \E n \in Usernames, r \in BodyRoles, c \in Callers :
    /\ Issue(p, NewUserCall("createUser", n, r, r, c), "user_guard")
    /\ UNCHANGED <<books, borrowRecords, lock, book, rec, clock, returnedAtDefault, covers, coverImagePath, http,
                   lastBorrow, databaseEntity, home, users>>

\* the guards of POST /users: 401 without a login, 403 for a role not listed
UserGuard(p) ==
  /\ pc[p] = "user_guard"
  /\ IF Call(p).caller = "anonymous" THEN Finish(p, "Unauthorized")
     ELSE IF ~RolesAllow(Call(p).caller, CreateUserRoles) THEN Finish(p, "Forbidden")
     ELSE /\ pc' = [pc EXCEPT ![p] = "user_find"]
          /\ UNCHANGED <<op, result, book, rec>>
  /\ UNCHANGED <<books, borrowRecords, lock, clock, returnedAtDefault, covers, coverImagePath, http,
                 lastBorrow, databaseEntity, home, users>>

\* UsersService.create: findOneBy({ username }) and the ConflictException
UserFind(p) ==
  /\ pc[p] = "user_find"
  /\ IF FindByUsername(Call(p).username) # {}
       THEN Finish(p, "Conflict")
       ELSE /\ pc' = [pc EXCEPT ![p] = "user_save"]
            /\ UNCHANGED <<op, result, book, rec>>
  /\ UNCHANGED <<books, borrowRecords, lock, clock, returnedAtDefault, covers, coverImagePath, http,
                 lastBorrow, databaseEntity, home, users>>

\* usersRepository.save(user): INSERT, refused by the unique index on username
UserSave(p) ==
  /\ pc[p] = "user_save"
  /\ IF FindByUsername(Call(p).username) # {}
       THEN /\ Finish(p, "QueryFailed")
            /\ UNCHANGED users
       ELSE /\ users' = Append(users, [username |-> Call(p).username,
                                       role |-> CreatedRole(Call(p).role)])
            /\ Finish(p, "ok")
  /\ UNCHANGED <<books, borrowRecords, lock, clock, returnedAtDefault, covers, coverImagePath, http,
                 lastBorrow, databaseEntity, home>>

InitUsers ==
  /\ books = << >>
  /\ borrowRecords = << >>
  /\ lock = [b \in BookIds |-> 0]
  /\ pc = [p \in Procs |-> "idle"]
  /\ op = [p \in Procs |-> NoCall]
  /\ book = [p \in Procs |-> NoBook]
  /\ rec = [p \in Procs |-> 0]
  /\ result = [p \in Procs |-> NoResult]
  /\ clock = 1
  /\ returnedAtDefault = "NULL"
  /\ covers = << >>
  /\ coverImagePath = [p \in Procs |-> NULL]
  /\ http = NoRequest
  /\ lastBorrow = [b \in BookIds |-> NoTrip]
  /\ databaseEntity = [p \in Procs |-> NoBook]
  /\ home = NoHome
  /\ users = << >>

NextUsers ==
  \E p \in Procs :
    \/ CallRegister(p)
    \/ CallCreateUser(p)
    \/ UserGuard(p)
    \/ UserFind(p)
    \/ UserSave(p)

SpecUsers == InitUsers /\ [][NextUsers]_vars

\* ---- shorthands used by the properties ----
Done(p, n) == pc[p] = "idle" /\ op[p].name = n

Outstanding(b) == books[b].quantity - books[b].availableQuantity

\* the step in which the call of slot p resolves or throws
Finishes(p) == pc[p] # "idle" /\ pc'[p] = "idle"

\* C1: for every Title, totalCopies - availableCopies equals the number of open
\* Loans that reference it, in every reachable state.
C1_OutstandingEqualsOpenLoans ==
  \A b \in 1..Len(books) : Outstanding(b) = Cardinality(OpenRecordsOfBook(b))

\* C2: every Title satisfies 0 <= availableCopies <= totalCopies in every
\* reachable state, whatever Create, Update, Borrow and Return calls interleave.
C2_AvailableWithinTotal ==
  \A b \in 1..Len(books) :
    /\ 0 <= books[b].availableQuantity
    /\ books[b].availableQuantity <= books[b].quantity

\* C3: no (Title, borrower) pair ever has more than one open Loan.
C3_AtMostOneOpenLoan ==
  \A b \in BookIds, u \in Users : Cardinality(OpenRecords(b, u)) <= 1

\* C3 witness: a borrower holding an open Loan asked for the same Title again
\* while copies were left, and was turned away.
C3_Witness ==
  \E p \in Procs :
    /\ Done(p, "borrow") /\ result[p] = "Conflict"
    /\ OpenRecords(op[p].id, op[p].user) # {}
    /\ books[op[p].id].availableQuantity > 0

\* C4: two concurrent Borrow calls of different borrowers for a Title with
\* totalCopies = 1 and availableCopies = 1: once both have ended, exactly one
\* succeeded, the other failed with InvalidState (BadRequest), availableCopies
\* is 0 and the Title has exactly one open Loan.
C4_LastCopyRace ==
  ( /\ books[1].quantity = 1
    /\ op[1].user # op[2].user
    /\ \A p \in Racers : pc[p] = "idle" )
  => /\ \E w \in Racers : /\ result[w] = "ok"
                           /\ \A l \in Racers \ {w} : result[l] = "BadRequest"
     /\ books[1].availableQuantity = 0
     /\ Cardinality(OpenRecordsOfBook(1)) = 1

\* the part of C4 that does not depend on the new Loan being open
C4_OneWinner ==
  ( /\ books[1].quantity = 1
    /\ op[1].user # op[2].user
    /\ \A p \in Racers : pc[p] = "idle" )
  => /\ \E w \in Racers : /\ result[w] = "ok"
                           /\ \A l \in Racers \ {w} : result[l] = "BadRequest"
     /\ books[1].availableQuantity = 0

\* the states SpecRace starts from, as a predicate on the states of Spec
RaceStart ==
  /\ Len(books) = 1 /\ books[1].availableQuantity = books[1].quantity
  /\ borrowRecords = << >>
  /\ \A p \in Racers : pc[p] = "borrow_find_book" /\ op[p].id = 1
  /\ op[1].user # op[2].user

\* C5: UpdateQuantity is one atomic read-modify-write: when it writes, the
\* outstanding count totalCopies - availableCopies of the committed row is
\* carried over unchanged, so no Borrow or Return that committed since the
\* update read the row has its +/-1 lost.
C5_UpdateKeepsOutstanding ==
  [][\A p \in Procs :
       ( /\ op[p].name = "update" /\ op[p].quantity # Undefined
         /\ Finishes(p) /\ result'[p] = "ok" )
       => LET b == op[p].id IN
          books'[b].quantity - books'[b].availableQuantity = Outstanding(b)]_vars

\* C6: a successful Borrow(titleId, borrowerId) decrements the Title's
\* availableCopies by exactly 1 and inserts exactly one Loan for the pair, and
\* that Loan is open (returnedAt is null) in the committed state.
C6_BorrowEffect ==
  [][\A p \in Procs :
       (op[p].name = "borrow" /\ Finishes(p) /\ result'[p] = "ok")
       => LET b == op[p].id
              n == Len(borrowRecords) IN
          /\ books'[b].availableQuantity = books[b].availableQuantity - 1
          /\ Len(borrowRecords') = n + 1
          /\ SubSeq(borrowRecords', 1, n) = borrowRecords
          /\ borrowRecords'[n + 1].book = b
          /\ borrowRecords'[n + 1].user = op[p].user
          /\ IsOpen(borrowRecords'[n + 1])]_vars

\* C7: a successful Return(titleId, borrowerId) increments the Title's
\* availableCopies by exactly 1 and sets returnedAt on exactly the one open
\* Loan of the pair; afterwards the pair has no open Loan.
C7_ReturnEffect ==
  [][\A p \in Procs :
       (op[p].name = "return" /\ Finishes(p) /\ result'[p] = "ok")
       => LET b == op[p].id
              u == op[p].user IN
          /\ books'[b].availableQuantity = books[b].availableQuantity + 1
          /\ Cardinality(OpenRecords(b, u)) = 1
          /\ Len(borrowRecords') = Len(borrowRecords)
          /\ \A i \in 1..Len(borrowRecords) :
               IF i \in OpenRecords(b, u)
               THEN /\ borrowRecords'[i].returnedAt # NULL
                    /\ borrowRecords'[i].book = b
                    /\ borrowRecords'[i].user = u
               ELSE borrowRecords'[i] = borrowRecords[i]
          /\ \A i \in 1..Len(borrowRecords') :
               borrowRecords'[i].book = b /\ borrowRecords'[i].user = u
               => borrowRecords'[i].returnedAt # NULL]_vars

\* C7 witness: a return call has succeeded and closed a Loan after its insertion.
C7_Witness ==
  \E p \in Procs :
    /\ Done(p, "return") /\ result[p] = "ok"
    /\ \E i \in 1..Len(borrowRecords) :
         /\ borrowRecords[i].book = op[p].id /\ borrowRecords[i].user = op[p].user
         /\ borrowRecords[i].returnedAt > borrowRecords[i].borrowedAt

\* C8: round trip. When a successful Borrow and then a successful Return of the
\* same borrower are consecutive committed writes to a Title, availableCopies
\* is back at its value before the Borrow and the Title has exactly one more
\* Loan record, which belongs to the borrower and is closed.
C8_RoundTrip ==
  \A b \in 1..Len(books) :
    lastBorrow[b].returned
    => LET rs == RecordsOfBook(b) IN
       /\ books[b].availableQuantity = lastBorrow[b].availableQuantity
       /\ Cardinality(rs) = lastBorrow[b].records + 1
       /\ \E i \in rs : /\ \A j \in rs : j <= i
                        /\ borrowRecords[i].user = lastBorrow[b].user
                        /\ ~IsOpen(borrowRecords[i])
       /\ OpenRecords(b, lastBorrow[b].user) = {}

\* C8 witness: a round trip has just completed on a Title.
C8_Witness ==
  \E b \in 1..Len(books) :
    /\ lastBorrow[b].returned
    /\ lastBorrow[b].availableQuantity > 0
    /\ \E p \in Procs : Done(p, "return") /\ result[p] = "ok" /\ op[p].id = b

\* C9: UpdateQuantity(titleId, newTotal) run in isolation (nothing committed on
\* the Title between the update's read and its write) fails with BadRequest
\* exactly when newTotal < totalCopies - availableCopies, leaving the row as it
\* is, and otherwise stores totalCopies = newTotal and availableCopies =
\* newTotal - outstanding.  On a Title with total 10 and available 8, newTotal
\* 3 and 12 are accepted (giving available 1 and 10) and newTotal 1 is rejected.
C9_UpdateQuantity ==
  /\ LET bk == [id |-> 1, isbn |-> 1, quantity |-> 10, availableQuantity |-> 8] IN
     /\ ~UpdateRejected(bk, 3) /\ Updated(bk, 3).availableQuantity = 1
     /\ ~UpdateRejected(bk, 12) /\ Updated(bk, 12).availableQuantity = 10
     /\ Updated(bk, 12).quantity = 12
     /\ UpdateRejected(bk, 1)
  /\ [][\A p \in Procs :
       ( /\ op[p].name = "update" /\ op[p].quantity # Undefined
         /\ pc[p] \in {"update_save", "update_write"}
         /\ book[p] = LoadBook(op[p].id) )
       => LET b == op[p].id
              q == op[p].quantity IN
          /\ (pc[p] = "update_save" /\ pc'[p] # pc[p])
             => /\ books' = books
                /\ IF q < Outstanding(b)
                   THEN pc'[p] = "idle" /\ result'[p] = "BadRequest"
                   ELSE pc'[p] = "update_write"
          /\ (pc[p] = "update_write" /\ Finishes(p) /\ databaseEntity[p] = LoadBook(b))
             => /\ result'[p] = "ok"
                /\ books'[b].quantity = q
                /\ books'[b].availableQuantity = q - Outstanding(b)
                /\ books'[b].isbn = books[b].isbn]_vars

\* C9 witness: one update was refused because two copies are out and the new
\* total was 1, and another update on the same Title was accepted.
C9_Witness ==
  \E p, r \in Procs :
    /\ Done(p, "update") /\ result[p] = "BadRequest"
    /\ Done(r, "update") /\ result[r] = "ok" /\ op[r].quantity # Undefined
    /\ op[p].id = op[r].id
    /\ Outstanding(op[p].id) > op[p].quantity
    /\ books[op[r].id].quantity = op[r].quantity

\* C10 as stated: whenever a borrower holding an open Loan on a Title calls
\* Borrow on it again, the call fails with Conflict and the Title's
\* availableCopies and the Loans are unchanged.
C10_DoubleBorrowConflict ==
  [][\A p \in Procs :
       ( /\ op[p].name = "borrow" /\ Finishes(p)
         /\ BookExists(op[p].id)
         /\ OpenRecords(op[p].id, op[p].user) # {} )
       => /\ result'[p] = "Conflict"
          /\ books' = books
          /\ borrowRecords' = borrowRecords]_vars

\* C10 amended: such a call always fails and changes neither availableCopies
\* nor any Loan; it fails with Conflict when the Title has a copy available,
\* and with InvalidState (BadRequest) when availableCopies is 0.
C10_DoubleBorrowRejected ==
  [][\A p \in Procs :
       ( /\ op[p].name = "borrow" /\ Finishes(p)
         /\ BookExists(op[p].id)
         /\ OpenRecords(op[p].id, op[p].user) # {} )
       => /\ result'[p] = IF books[op[p].id].availableQuantity > 0
                          THEN "Conflict" ELSE "BadRequest"
          /\ books' = books
          /\ borrowRecords' = borrowRecords]_vars

\* C10 witness: a borrower holding the last copy of a Title asked for it again
\* and got BadRequest.
C10_Witness ==
  \E p \in Procs :
    /\ Done(p, "borrow") /\ result[p] = "BadRequest"
    /\ OpenRecords(op[p].id, op[p].user) # {}
    /\ books[op[p].id].availableQuantity = 0

\* C11: a Borrow on an existing Title whose availableCopies is 0 fails with
\* InvalidState (BadRequest), inserts no Loan and leaves the row of the Title,
\* availableCopies = 0 included, as it is.
C11_BorrowNoCopies ==
  [][\A p \in Procs :
       ( /\ op[p].name = "borrow" /\ Finishes(p)
         /\ BookExists(op[p].id)
         /\ books[op[p].id].availableQuantity = 0 )
       => /\ result'[p] = "BadRequest"
          /\ borrowRecords' = borrowRecords
          /\ books' = books
          /\ books'[op[p].id].availableQuantity = 0]_vars

\* C11 witness: a borrower with no open Loan on a Title asked for it when no
\* copy was left and got BadRequest.
C11_Witness ==
  \E p \in Procs :
    /\ Done(p, "borrow") /\ result[p] = "BadRequest"
    /\ OpenRecords(op[p].id, op[p].user) = {}
    /\ books[op[p].id].availableQuantity = 0
    /\ books[op[p].id].quantity > 0

\* C12: a Return for a (Title, borrower) pair with no open Loan on an existing
\* Title fails with NotFound and changes no Title row and no Loan.
C12_ReturnWithoutLoan ==
  [][\A p \in Procs :
       ( /\ op[p].name = "return" /\ Finishes(p)
         /\ BookExists(op[p].id)
         /\ OpenRecords(op[p].id, op[p].user) = {} )
       => /\ result'[p] = "NotFound"
          /\ books' = books
          /\ borrowRecords' = borrowRecords]_vars

\* C12 witness: both cases of the claim have happened: a borrower who never
\* borrowed the Title, and one whose Loan was already closed by a successful
\* return, each got NotFound from return.
C12_Witness ==
  \E p, r \in Procs :
    /\ Done(p, "return") /\ result[p] = "NotFound" /\ BookExists(op[p].id)
    /\ \A i \in RecordsOfBook(op[p].id) : borrowRecords[i].user # op[p].user
    /\ Done(r, "return") /\ result[r] = "NotFound" /\ BookExists(op[r].id)
    /\ \E i \in ClosedRecords(op[r].id, op[r].user) :
         borrowRecords[i].returnedAt > borrowRecords[i].borrowedAt

\* C13: corruption detection. A Return by a borrower holding an open Loan on a
\* Title whose availableCopies >= totalCopies fails with the Internal error;
\* availableCopies is not changed and the Loan stays open.
C13_CorruptionDetected ==
  [][\A p \in Procs :
       ( /\ op[p].name = "return" /\ Finishes(p)
         /\ BookExists(op[p].id)
         /\ OpenRecords(op[p].id, op[p].user) # {}
         /\ books[op[p].id].availableQuantity >= books[op[p].id].quantity )
       => /\ result'[p] = "Internal"
          /\ books' = books
          /\ borrowRecords' = borrowRecords]_vars

\* C13 witness: a return ended with the Internal error on a Title with every
\* copy counted as available, and the borrower's Loan is still open.
C13_Witness ==
  \E p \in Procs :
    /\ Done(p, "return") /\ result[p] = "Internal"
    /\ OpenRecords(op[p].id, op[p].user) # {}
    /\ books[op[p].id].availableQuantity >= books[op[p].id].quantity

\* C14: a Borrow, Return or Update whose titleId matches no stored Title fails
\* with NotFound, and stores or changes no Title and no Loan.
C14_UnknownTitle ==
  [][\A p \in Procs :
       ( /\ op[p].name \in {"borrow", "return", "update"} /\ Finishes(p)
         /\ op[p].id \notin 1..Len(books) )
       => /\ result'[p] = "NotFound"
          /\ books' = books
          /\ borrowRecords' = borrowRecords]_vars

\* C14 witness: a borrow, a return or an update has ended with NotFound while
\* no Title has the id it was called with; update and another of them at once.
C14_Witness ==
  \E p, r \in Procs :
    /\ Done(p, "update") /\ result[p] = "NotFound"
    /\ Done(r, "borrow") \/ Done(r, "return")
    /\ result[r] = "NotFound"
    /\ op[p].id \notin 1..Len(books) /\ op[r].id \notin 1..Len(books)

\* C15: Borrow and Return are all-or-nothing. Every step of a borrow or return
\* either leaves the committed Titles and Loans as they are, and then the call
\* has not succeeded, or it is the commit of a successful call and changes
\* both together: availableCopies by -1 with one Loan inserted for the pair, or
\* by +1 with one open Loan of the pair closed. An abort after the Title was
\* saved, while the Loan is saved, is among the steps.
C15_AllOrNothing ==
  [][\A p \in Procs :
       (op[p].name \in {"borrow", "return"} /\ pc[p] # "idle" /\ pc'[p] # pc[p])
       => LET b == op[p].id
              u == op[p].user
              n == Len(borrowRecords) IN
          \/ /\ books' = books
             /\ borrowRecords' = borrowRecords
             /\ pc'[p] = "idle" => result'[p] # "ok"
          \/ /\ pc'[p] = "idle" /\ result'[p] = "ok"
             /\ op[p].name = "borrow"
             /\ books' = [books EXCEPT ![b].availableQuantity = @ - 1]
             /\ Len(borrowRecords') = n + 1
             /\ SubSeq(borrowRecords', 1, n) = borrowRecords
             /\ borrowRecords'[n + 1].book = b /\ borrowRecords'[n + 1].user = u
          \/ /\ pc'[p] = "idle" /\ result'[p] = "ok"
             /\ op[p].name = "return"
             /\ books' = [books EXCEPT ![b].availableQuantity = @ + 1]
             /\ \E i \in OpenRecords(b, u) :
                  /\ borrowRecords'[i].returnedAt # NULL
                  /\ borrowRecords' = [borrowRecords EXCEPT
                                         ![i].returnedAt = borrowRecords'[i].returnedAt]]_vars

\* C15 witness: a borrow and a return have each aborted after saving the
\* Title, and the committed Title still counts one copy out for one open Loan.
C15_Witness ==
  \E p, r \in Procs :
    /\ Done(p, "borrow") /\ result[p] = "QueryFailed"
    /\ Done(r, "return") /\ result[r] = "QueryFailed"
    /\ op[p].id = op[r].id
    /\ Outstanding(op[r].id) = 1
    /\ Cardinality(OpenRecordsOfBook(op[r].id)) = 1

\* C16: a Create whose isbn is already held by a stored Title fails with
\* Conflict and adds no Title, and no two stored Titles ever share an isbn,
\* under every interleaving of concurrent Create calls.
C16_DuplicateIsbn ==
  [][/\ \A p \in Procs :
          ( /\ op[p].name = "create" /\ Finishes(p)
            /\ FindByIsbn(op[p].isbn) # {} )
          => /\ result'[p] = "Conflict"
             /\ books' = books
     /\ \A i, j \in 1..Len(books') :
          books'[i].isbn = books'[j].isbn => i = j]_vars

\* the part of C16 that does not depend on how the refusal is reported
C16_UniqueIsbn ==
  [][/\ \A p \in Procs :
          ( /\ op[p].name = "create" /\ Finishes(p)
            /\ FindByIsbn(op[p].isbn) # {} )
          => /\ result'[p] # "ok"
             /\ books' = books
     /\ \A i, j \in 1..Len(books') :
          books'[i].isbn = books'[j].isbn => i = j]_vars

\* C17: every Title enters the store with availableCopies = totalCopies and
\* with no Loan referring to it, whether a Create or the seeding of the
\* initial state stores it.
C17_EntersFull ==
  [][Len(books') > Len(books)
     => /\ Len(books') = Len(books) + 1
        /\ SubSeq(books', 1, Len(books)) = books
        /\ books'[Len(books')].availableQuantity = books'[Len(books')].quantity
        /\ \A i \in 1..Len(borrowRecords') :
             borrowRecords'[i].book # Len(books')]_vars

\* the borrow and return transactions that are between their locked read of
\* Title b and their commit or abort
InTransaction(b) ==
  {p \in Procs : /\ op[p].id = b
                 /\ pc[p] \in {"borrow_find_record", "borrow_save_book",
                               "borrow_save_record", "return_find_record",
                               "return_save_book", "return_save_record"}}

\* what a borrow or return of Title b by borrower u answers when it runs alone,
\* start to end, on the committed state
SerialResult(n, b, u) ==
  IF ~BookExists(b) THEN "NotFound"
  ELSE IF n = "borrow"
  THEN (IF books[b].availableQuantity <= 0 THEN "BadRequest"
        ELSE IF OpenRecords(b, u) # {} THEN "Conflict" ELSE "ok")
  ELSE (IF OpenRecords(b, u) = {} THEN "NotFound"
        ELSE IF books[b].availableQuantity >= books[b].quantity THEN "Internal"
        ELSE "ok")

\* C18: Borrow and Return on one Title serialize through its row lock. At no
\* time are two of them between their locked read and their commit, the one
\* that is there holds the lock, and each of them ends with the answer and the
\* change that running it alone on the committed state of that moment gives
\* (or aborts with no change), so every execution equals the serial one in
\* commit order.
C18_SerializedByLock ==
  /\ [](\A b \in BookIds :
          /\ Cardinality(InTransaction(b)) <= 1
          /\ \A p \in InTransaction(b) : lock[b] = p)
  /\ [][\A p \in Procs :
          (op[p].name \in {"borrow", "return"} /\ Finishes(p))
          => LET b == op[p].id
                 u == op[p].user
                 n == Len(borrowRecords)
                 r == SerialResult(op[p].name, b, u) IN
             /\ result'[p] = r \/ (r = "ok" /\ result'[p] = "QueryFailed")
             /\ IF result'[p] # "ok"
                  THEN books' = books /\ borrowRecords' = borrowRecords
                ELSE IF op[p].name = "borrow"
                  THEN /\ books' = [books EXCEPT ![b].availableQuantity = @ - 1]
                       /\ Len(borrowRecords') = n + 1
                       /\ SubSeq(borrowRecords', 1, n) = borrowRecords
                  ELSE /\ books' = [books EXCEPT ![b].availableQuantity = @ + 1]
                       /\ borrowRecords' = [borrowRecords EXCEPT
                             ![FindOpenRecord(b, u)].returnedAt = clock]]_vars

\* C18 witness: a borrow or return is waiting for the lock of a Title that
\* another transaction holds after having changed the Title in memory.
C18_Witness ==
  \E p, r \in Procs, b \in BookIds :
    /\ p # r /\ BookExists(b)
    /\ lock[b] = p /\ pc[p] \in {"borrow_save_record", "return_save_record"}
    /\ op[r].id = b /\ pc[r] \in {"borrow_find_book", "return_find_book"}

\* C19: operations on different Titles never block each other. Whatever a
\* borrow or return on Title 1 does, even if it stalls for ever while holding
\* the lock of Title 1, a borrow or return on Title 2 gets the lock of Title 2
\* and runs to its end.
C19_DifferentTitlesNeverBlock ==
  (pc[2] \in {"borrow_find_book", "return_find_book"}) ~> (pc[2] = "idle")

\* C19 witness: a call on Title 2 has succeeded and released its lock while
\* a transaction on Title 1 holds the lock of Title 1 with its write pending.
C19_Witness ==
  /\ lock[1] = 1 /\ pc[1] \in {"borrow_save_record", "return_save_record"}
  /\ lock[2] = 0 /\ pc[2] = "idle" /\ result[2] = "ok"
  /\ op[1].id = 1 /\ op[2].id = 2
  /\ clock > borrowRecords[Len(borrowRecords)].borrowedAt

\* C20: the Title lock is released on commit and on abort. A lock is held only
\* by a borrow or return that is between its locked read of that Title and
\* its end, so a request that has ended on any path holds no lock, and a Title
\* with no borrow or return in flight has its lock free.
C20_LockReleased ==
  \A b \in DOMAIN lock :
    /\ lock[b] # 0 => lock[b] \in InTransaction(b)
    /\ InTransaction(b) = {} => lock[b] = 0
    /\ \A p \in Procs : pc[p] = "idle" => lock[b] # p

\* C20 witness: a return has ended with the Internal error (an abort) and
\* another call has committed a borrow, and every lock is free.
C20_Witness ==
  \E p, r \in Procs :
    /\ Done(p, "return") /\ result[p] = "Internal"
    /\ Done(r, "borrow") /\ result[r] = "ok"
    /\ \A b \in DOMAIN lock : lock[b] = 0

\* C21: the Loans are an append-only ledger. No step removes a Loan or changes
\* the Title, the borrower or borrowedAt of one, and a returnedAt that is set
\* is never cleared or overwritten by a later Borrow, Return or Update.
C21_LoanLedger ==
  [][/\ Len(borrowRecords') >= Len(borrowRecords)
     /\ \A i \in 1..Len(borrowRecords) :
          /\ borrowRecords'[i].book = borrowRecords[i].book
          /\ borrowRecords'[i].user = borrowRecords[i].user
          /\ borrowRecords'[i].borrowedAt = borrowRecords[i].borrowedAt
          /\ borrowRecords[i].returnedAt # NULL
             => borrowRecords'[i].returnedAt = borrowRecords[i].returnedAt]_vars

\* C21 witness: a Loan closed by a return is still in the ledger as it was
\* closed, after the same borrower's later borrow and return of the Title.
C21_Witness ==
  \E i, j \in 1..Len(borrowRecords), p \in Procs :
    /\ i < j
    /\ borrowRecords[i].book = borrowRecords[j].book
    /\ borrowRecords[i].user = borrowRecords[j].user
    /\ borrowRecords[i].borrowedAt < borrowRecords[i].returnedAt
    /\ borrowRecords[i].returnedAt < borrowRecords[j].borrowedAt
    /\ borrowRecords[j].borrowedAt < borrowRecords[j].returnedAt
    /\ Done(p, "return") /\ result[p] = "ok" /\ op[p].user = borrowRecords[j].user

\* C22: every stored Title has totalCopies >= 1 in every reachable state;
\* neither Create nor a successful Update stores a totalCopies of 0 or less.
C22_TotalAtLeastOne ==
  \A b \in 1..Len(books) : books[b].quantity >= 1

\* C22 witness: a Title created with two copies was brought down to the
\* smallest total by a successful update.
C22_Witness ==
  \E p, r \in Procs :
    /\ Done(p, "create") /\ result[p] = "ok" /\ op[p].quantity = MaxQty
    /\ Done(r, "update") /\ result[r] = "ok" /\ op[r].quantity = 1
    /\ BookExists(op[r].id) /\ books[op[r].id].quantity = 1

\* C23: a logged-in user of any role, Member included, can view the book
\* list: when a load of the Home page has ended, the books of the requested
\* page are shown and the load-failure notification is not.
C23_MemberSeesBooks ==
  (home.fetch = "idle" /\ home.page # 0)
  => /\ home.notification = "none"
     /\ home.books = findAll(home.page, HomeLimit).data
     /\ ~home.isLoading

\* the same for the roles that may read the borrowing history
C23_StaffSeesBooks ==
  (home.fetch = "idle" /\ home.page # 0 /\ home.role \in GetBorrowHistoryRoles)
  => /\ home.notification = "none"
     /\ home.books = findAll(home.page, HomeLimit).data
     /\ ~home.isLoading

\* C24: UsersService.create with a username that is already stored when it
\* looks the username up fails with Conflict; a call that ends while its
\* username is stored adds no user; and no two stored users ever share a
\* username, under every interleaving of create and register calls.
C24_DuplicateUsername ==
  [][/\ \A p \in Procs :
          (pc[p] \in {"user_find", "user_save"} /\ pc'[p] # pc[p]
           /\ FindByUsername(op[p].username) # {})
          => /\ users' = users
             /\ pc'[p] = "idle" /\ result'[p] # "ok"
             /\ pc[p] = "user_find" => result'[p] = "Conflict"
     /\ \A i, j \in 1..Len(users') :
          users'[i].username = users'[j].username => i = j]_vars

\* C24 witness: a create was refused with Conflict for a stored username
\* while another request stored a user with a different name.
C24_Witness ==
  \E p, r \in Procs :
    /\ Done(p, "createUser") /\ result[p] = "Conflict"
    /\ FindByUsername(op[p].username) # {}
    /\ Done(r, "register") /\ result[r] = "ok"
    /\ Len(users) >= 2

\* C25: a user created without a role gets role member, the public register
\* endpoint stores a member whatever role the body carries, and a librarian
\* or admin is stored only by the create endpoint called by an admin.
C25_RoleAssignment ==
  [][\A p \in Procs :
       (pc[p] = "user_save" /\ pc'[p] # pc[p] /\ Len(users') > Len(users))
       => LET new == users'[Len(users')] IN
          /\ Len(users') = Len(users) + 1
          /\ new.username = op[p].username
          /\ op[p].sent = "undefined" => new.role = "member"
          /\ op[p].name = "register" => new.role = "member"
          /\ op[p].name = "createUser" /\ op[p].sent # "undefined"
             => new.role = op[p].sent
          /\ new.role \in {"librarian", "admin"}
             => op[p].name = "createUser" /\ op[p].caller = "admin"]_vars

\* C25 witness: a register request that asked for role admin has stored a
\* member, and an admin's create request has stored a librarian.
C25_Witness ==
  \E p, r \in Procs :
    /\ Done(p, "register") /\ result[p] = "ok" /\ op[p].sent = "admin"
    /\ \E i \in FindByUsername(op[p].username) : users[i].role = "member"
    /\ Done(r, "createUser") /\ result[r] = "ok" /\ op[r].caller = "admin"
    /\ \E i \in FindByUsername(op[r].username) : users[i].role = "librarian"

\* C26: pagination arithmetic of ListTitles. With total matching Titles and
\* limit >= 1, totalPages is the least n with n * limit >= total, and page p
\* skips exactly (p - 1) * limit Titles and returns the next ones, at most
\* limit of them; page defaults to 1 and limit to 10.
C26_Pagination ==
  \A p \in Procs :
    Done(p, "findAll")
    => LET r     == result[p]
           pg    == IF op[p].page = Undefined THEN 1 ELSE op[p].page
           lim   == IF op[p].limit = Undefined THEN 10 ELSE op[p].limit
           total == Len(books)
           rest  == IF total > (pg - 1) * lim THEN total - (pg - 1) * lim ELSE 0 IN
       /\ r.total = total /\ r.page = pg /\ r.limit = lim
       /\ r.totalPages \in 0..total
       /\ r.totalPages * lim >= total
       /\ \A n \in 0..total : n * lim >= total => r.totalPages <= n
       /\ Len(r.data) = (IF rest < lim THEN rest ELSE lim)
       /\ \A k \in 1..Len(r.data) : r.data[k] = (pg - 1) * lim + k

\* C26 witness: a request for the second page got a last page that is not
\* full, and totalPages was rounded up.
C26_Witness ==
  \E p \in Procs :
    /\ Done(p, "findAll") /\ op[p].page = 2 /\ op[p].limit # Undefined
    /\ Len(result[p].data) > 0 /\ Len(result[p].data) < op[p].limit
    /\ result[p].totalPages = 2
    /\ Len(books) % op[p].limit # 0

\* C27: starting from Titles created through Create, no interleaving of Create,
\* Update, Borrow and Return makes a Return fail with the Internal error: no
\* committed state has an open Loan on a Title whose availableCopies >=
\* totalCopies.
C27_InternalUnreachable ==
  /\ \A p \in Procs : Done(p, "return") => result[p] # "Internal"
  /\ \A b \in 1..Len(books) :
       (InTransaction(b) = {} /\ OpenRecordsOfBook(b) # {})
       => books[b].availableQuantity < books[b].quantity

\* C28: in every reachable state the number of open Loans of a Title is at
\* most the Title's totalCopies, under any interleaving of Borrow, Return and
\* Update.
C28_OpenLoansWithinTotal ==
  \A b \in 1..Len(books) : Cardinality(OpenRecordsOfBook(b)) <= books[b].quantity

\* C29: an Update whose request carries no quantity leaves totalCopies and
\* availableCopies of the Title as the last committed Borrow, Return or Update
\* left them, also when a Borrow or Return on the Title commits between the
\* Update's read and its save: no step of such an Update changes either.
C29_UpdateWithoutQuantity ==
  [][\A p \in Procs :
       ( /\ op[p].name = "update" /\ op[p].quantity = Undefined
         /\ pc[p] # "idle" /\ pc'[p] # pc[p]
         /\ BookExists(op[p].id) )
       => LET b == op[p].id IN
          /\ books'[b].quantity = books[b].quantity
          /\ books'[b].availableQuantity = books[b].availableQuantity]_vars

\* C30: Borrow evaluates its preconditions in the order Title exists, then
\* availableCopies > 0, then no open Loan of the caller, and reports the first
\* one that fails: a caller holding an open Loan on a Title with no available
\* copy gets InvalidState (BadRequest), never Conflict.
C30_PreconditionOrder ==
  [][\A p \in Procs :
       (op[p].name = "borrow" /\ Finishes(p))
       => LET b == op[p].id
              u == op[p].user IN
          /\ ~BookExists(b) => result'[p] = "NotFound"
          /\ (BookExists(b) /\ books[b].availableQuantity <= 0)
             => result'[p] = "BadRequest"
          /\ (BookExists(b) /\ books[b].availableQuantity > 0 /\ OpenRecords(b, u) # {})
             => result'[p] = "Conflict"
          /\ result'[p] = "Conflict"
             => (BookExists(b) /\ books[b].availableQuantity > 0)]_vars

\* C30 witness: both later preconditions failed at once, the caller holds the
\* one open Loan of a Title with no copy left, and the answer was BadRequest.
C30_Witness ==
  \E p \in Procs :
    /\ Done(p, "borrow") /\ BookExists(op[p].id)
    /\ NoCopies(LoadBook(op[p].id))
    /\ Cardinality(OpenRecords(op[p].id, op[p].user)) = 1
    /\ result[p] = "BadRequest" /\ result[p] # "Conflict"

\* C31: Return evaluates its preconditions in the order Title exists, then
\* open Loan of the caller exists, then availableCopies < totalCopies: a caller
\* with no open Loan on a Title whose availableCopies equals totalCopies gets
\* NotFound, and Internal is answered only to a caller who holds an open Loan.
C31_ReturnPreconditionOrder ==
  [][\A p \in Procs :
       (op[p].name = "return" /\ Finishes(p))
       => LET b == op[p].id
              u == op[p].user IN
          /\ ~BookExists(b) => result'[p] = "NotFound"
          /\ (BookExists(b) /\ OpenRecords(b, u) = {}) => result'[p] = "NotFound"
          /\ result'[p] = "Internal"
             => /\ BookExists(b)
                /\ OpenRecords(b, u) # {}
                /\ books[b].availableQuantity >= books[b].quantity]_vars

\* C31 witness: on one Title counted as fully available, the caller without an
\* open Loan got NotFound and the caller holding the open Loan got Internal.
C31_Witness ==
  \E p, r \in Procs :
    /\ p # r /\ op[p].id = op[r].id /\ BookExists(op[p].id)
    /\ books[op[p].id].availableQuantity = books[op[p].id].quantity
    /\ Done(p, "return") /\ result[p] = "NotFound"
    /\ OpenRecords(op[p].id, op[p].user) = {}
    /\ Done(r, "return") /\ result[r] = "Internal"
    /\ OpenRecords(op[r].id, op[r].user) # {}

\* C32: two concurrent Borrow calls of one borrower on a Title with at least 2
\* available copies: once both have ended, exactly one succeeded and the other
\* failed with Conflict, availableCopies dropped by exactly 1 and the pair has
\* exactly one open Loan.
C32_SameBorrowerRace ==
  ( /\ books[1].quantity >= 2
    /\ op[1].user = op[2].user
    /\ \A p \in Racers : pc[p] = "idle" )
  => /\ \E w \in Racers : /\ result[w] = "ok"
                           /\ \A l \in Racers \ {w} : result[l] = "Conflict"
     /\ books[1].availableQuantity = books[1].quantity - 1
     /\ Cardinality(OpenRecords(1, op[1].user)) = 1

\* C32 where the database leaves returnedAt of a new Loan null
C32_SameBorrowerRaceOpenLoans ==
  returnedAtDefault = "NULL" => C32_SameBorrowerRace

\* a borrow or return that was invoked and has not ended
Pending(p) ==
  pc[p] \in {"borrow_find_book", "borrow_find_record", "borrow_save_book",
             "borrow_save_record", "return_find_book", "return_find_record",
             "return_save_book", "return_save_record"}

\* a pending borrow or return that waits for nothing: it has passed its locked
\* read, or the row it is about to read is unlocked or does not exist
CanStep(p) ==
  IF ~Pending(p) THEN FALSE
  ELSE IF pc[p] \notin {"borrow_find_book", "return_find_book"} THEN TRUE
  ELSE IF BookExists(op[p].id) THEN CanLock(op[p].id) ELSE TRUE

NoDeadlock == (\E p \in Procs : Pending(p)) => (\E p \in Procs : CanStep(p))

\* C33: every Borrow or Return that is invoked eventually completes, provided
\* each transaction holding a lock keeps taking steps and lock grants are
\* fair: a caller blocked on a held Title lock is eventually granted it, and
\* no set of concurrent Borrow, Return and Update calls deadlocks (while a
\* Borrow or Return is pending, one of them can take a step).
C33_EventuallyCompletes ==
  /\ []NoDeadlock
  /\ \A p \in Procs : Pending(p) ~> (pc[p] = "idle")

\* C33 witness: a borrow or return is blocked on the lock of a Title held by
\* a transaction that has read the Title and not yet ended, while an earlier
\* Loan of the Title is stored.
C33_Witness ==
  \E p, r \in Procs :
    /\ p # r /\ BookExists(op[p].id) /\ Len(borrowRecords) > 0
    /\ pc[p] \in {"borrow_find_book", "return_find_book"}
    /\ lock[op[p].id] = r /\ ~CanLock(op[p].id)
    /\ Pending(r) /\ pc[r] \notin {"borrow_find_book", "return_find_book"}

\* C34: Borrow(t, u) and Return(t, u) change nothing outside their target. No
\* step of either changes totalCopies or availableCopies of a Title other than
\* t, and every Loan other than the Loan of (t, u) being opened or closed,
\* other borrowers' open Loans on t included, stays as it is.
C34_FrameOfBorrowReturn ==
  [][\A p \in Procs :
       (op[p].name \in {"borrow", "return"} /\ pc[p] # "idle" /\ pc'[p] # pc[p])
       => LET b == op[p].id
              u == op[p].user
              n == Len(borrowRecords) IN
          /\ Len(books') = Len(books)
          /\ \A t \in 1..Len(books) :
               t # b => /\ books'[t].quantity = books[t].quantity
                        /\ books'[t].availableQuantity = books[t].availableQuantity
          /\ Len(borrowRecords') \in {n, n + 1}
          /\ Len(borrowRecords') = n + 1
             => /\ op[p].name = "borrow"
                /\ borrowRecords'[n + 1].book = b /\ borrowRecords'[n + 1].user = u
          /\ \A i \in 1..n :
               ( \/ op[p].name = "borrow"
                 \/ i \notin OpenRecords(b, u) )
               => borrowRecords'[i] = borrowRecords[i]]_vars

\* C34 witness: a return of (t, u) has succeeded while another borrower's Loan
\* on t is open and a second Title is stored.
C34_Witness ==
  \E p \in Procs :
    /\ Done(p, "return") /\ result[p] = "ok"
    /\ \E i \in OpenRecordsOfBook(op[p].id) : borrowRecords[i].user # op[p].user
    /\ \E i \in ClosedRecords(op[p].id, op[p].user) :
         borrowRecords[i].returnedAt > borrowRecords[i].borrowedAt
    /\ \E t \in 1..Len(books) : t # op[p].id

\* the call ending in slot p repeats the last committed write to its Title: a
\* borrow of the same borrower after the borrow, a return after the return
Redelivered(p) ==
  /\ op[p].name \in {"borrow", "return"} /\ Finishes(p)
  /\ BookExists(op[p].id)
  /\ lastBorrow[op[p].id].user = op[p].user
  /\ lastBorrow[op[p].id].returned = (op[p].name = "return")

\* C35: re-delivery is harmless. When a Borrow(t, u) or Return(t, u) that
\* already committed is delivered a second time with no other operation of u
\* on t in between, the second delivery fails and changes neither
\* availableCopies nor any Loan.
C35_RedeliveryHarmless ==
  [][\A p \in Procs :
       Redelivered(p)
       => /\ result'[p] # "ok"
          /\ books' = books
          /\ borrowRecords' = borrowRecords]_vars

\* C35 where the database leaves returnedAt of a new Loan null
C35_RedeliveryHarmlessOpenLoans ==
  [][\A p \in Procs :
       (returnedAtDefault = "NULL" /\ Redelivered(p))
       => /\ result'[p] \in {"Conflict", "BadRequest", "NotFound"}
          /\ books' = books
          /\ borrowRecords' = borrowRecords]_vars

\* C36: the HTTP client sends one request at most 1 + maxRetries times (4 with
\* the default of 3) and retries only a failure with a status in the retriable
\* list (408, 429, 500, 502, 503, 504), an error code in the retriable
\* error-code list, or a max-content-length error; responses 400, 404 and 409
\* are never retried, and after the last attempt the error is rejected to the
\* caller.
C36_BoundedRetries ==
  /\ [](/\ http.sent <= 1 + http.maxRetries
        /\ http.maxRetries = 3 => http.sent <= 4
        /\ http.state = "delay"
           => /\ http.sent <= http.maxRetries
              /\ http.error.status \notin {400, 404, 409}
              /\ \/ http.error.status \in {408, 429, 500, 502, 503, 504}
                 \/ http.error.code \in retriableErrorCodes
                 \/ http.error.message = "maxContentLength size exceeded"
                 \/ http.error.code = "ERR_FR_MAX_CONTENT_LENGTH_EXCEEDED")
  /\ [][/\ http'.sent > http.sent /\ http.sent > 0
           => /\ http.state = "delay" /\ http'.sent = http.sent + 1
              /\ http'.error = http.error
        /\ (http.state = "sent" /\ http'.state # "sent")
           => /\ http'.state \in {"resolved", "delay", "rejected"}
              /\ http'.state \in {"delay", "rejected"}
                 => http'.error \in AxiosErrors
              /\ (http'.state # "resolved" /\ http'.error.status \in {400, 404, 409})
                 => http'.state = "rejected"
              /\ (http'.state # "resolved" /\ http.sent = 1 + http.maxRetries)
                 => http'.state = "rejected"
        /\ http.state = "rejected" => http'.sent <= 1]_vars

\* C36 witness: with the default of 3 retries a request went out 4 times, the
\* last failure was a 503, and the error was rejected to the caller.
C36_Witness ==
  /\ http.maxRetries = 3 /\ http.sent = 4 /\ http.retryCount = 3
  /\ http.state = "rejected" /\ http.error.status = 503

\* a create that ends here was rejected for its isbn, or for its cover file
RejectedCreate(p) ==
  /\ op[p].name = "create" /\ Finishes(p)
  /\ \/ FindByIsbn(op[p].isbn) # {}
     \/ /\ op[p].file # NoFile
        /\ \/ op[p].file.originalname \notin {"cover.png", "COVER.JPG", "cover.jpeg"}
           \/ op[p].file.size > 5242880

\* a stored cover file that is the coverImage of no Book and that no running
\* create is about to store with its Book
Orphans ==
  {k \in 1..Len(covers) :
     covers[k] = 0 /\ \A p \in Procs : ~(pc[p] = "create_save" /\ coverImagePath[p] = k)}

\* C37: Create performs its checks before any side effect. A request rejected
\* for a duplicate isbn, for a cover file whose extension is not .png, .jpeg or
\* .jpg, or for a cover file larger than 5 MB writes no cover file and stores
\* no Title, and no cover file is left stored for a Create that ends without
\* storing its Title.
C37_ChecksBeforeEffects ==
  /\ [][\A p \in Procs :
          RejectedCreate(p)
          => /\ result'[p] # "ok"
             /\ books' = books
             /\ covers' = covers
             /\ coverImagePath[p] = NULL]_vars
  /\ [](Orphans = {})

\* C37 for the rejections create itself throws, before it writes anything
C37_ThrownBeforeWrite ==
  [][\A p \in Procs :
       (op[p].name = "create" /\ Finishes(p) /\ result'[p] \in {"Conflict", "BadRequest"})
       => /\ books' = books
          /\ covers' = covers
          /\ coverImagePath[p] = NULL]_vars
====
